---- MODULE Spec2Model ----
(***************************************************************************)
(* A model of the JSX compiler of jsxLoader (src/unnamed/part_000):        *)
(* removeComments, tokenizer, parser and codeGenerator, as they are run by *)
(* compile.  Source text is a sequence of one-character strings; JS        *)
(* offsets are 0-based and are kept 0-based here (see At).                 *)
(***************************************************************************)
EXTENDS Integers, Sequences, FiniteSets, TLC

VARIABLES
    call,       \* the public function that was invoked
    pc,         \* the step compile (or the invoked function) is at
    input,      \* the argument of the invoked function
    opts,       \* the compiler's option fields
    rc,         \* locals of removeComments
    newInput,   \* result of removeComments (compile's newInput)
    tk,         \* locals of tokenizer
    tokens,     \* result of tokenizer
    ast,        \* result of parser
    generatedJs,\* generateCode's local in the program case
    output,     \* result of compile
    error,      \* message of the Error thrown, or "" when none was
    page        \* the document: the script elements loaded and the scripts
                \* appended to its head

vars == <<call, pc, input, opts, rc, newInput, tk, tokens, ast, generatedJs,
          output, error, page>>

(***************************************************************************)
(* JavaScript values and string primitives                                 *)
(***************************************************************************)

\* The backquote character (a TLA+ string cannot hold it).
Backtick == "BACKQUOTE"

\* JS null and undefined.  They are written as the text JS converts them to,
\* because the code hands them to RegExp.test, which tests that text.
null == "null"
undefined == "undefined"

Lower == {"a","b","c","d","e","f","g","h","i","j","k","l","m","n","o","p","q",
          "r","s","t","u","v","w","x","y","z"}
Upper == {"A","B","C","D","E","F","G","H","I","J","K","L","M","N","O","P","Q",
          "R","S","T","U","V","W","X","Y","Z"}
Digit == {"0","1","2","3","4","5","6","7","8","9"}

\* input[i] for a 0-based i: undefined outside the string
At(s, i) == IF i >= 0 /\ i < Len(s) THEN s[i + 1] ELSE undefined

\* s.substring(a, b) for 0 <= a
Substring(s, a, b) ==
    LET lo == IF a < 0 THEN 0 ELSE IF a > Len(s) THEN Len(s) ELSE a
        hi == IF b < 0 THEN 0 ELSE IF b > Len(s) THEN Len(s) ELSE b
    IN  IF lo <= hi THEN SubSeq(s, lo + 1, hi) ELSE SubSeq(s, hi + 1, lo)

\* s.indexOf(t) !== -1
Contains(s, t) ==
    \E i \in 0..(Len(s) - Len(t)) : SubSeq(s, i + 1, i + Len(t)) = t

\* /[a-zA-Z>]/.test(c): c is a character, null or undefined
TestAlphaGt(c) == c \in Lower \cup Upper \cup {">", null, undefined}

\* /[a-zA-Z>/]/.test(c)
TestAlphaGtSlash(c) == TestAlphaGt(c) \/ c = "/"

\* /[a-zA-Z0-9_/]/.test(c) for a character c
TestWordSlash(c) == c \in Lower \cup Upper \cup Digit \cup {"_", "/"}

Whitespace == {" ", "\t", "\n", "\r"}

\* a document with no script element loaded
NoPage == [elements |-> <<>>, scripts |-> <<>>, callbacks |-> 0]

(***************************************************************************)
(* isExpression                                                            *)
(***************************************************************************)

\* an isExpression that scans on after a name and a space
RECURSIVE isExpressionPastName(_, _, _, _)
isExpressionPastName(inp, p, length, foundName) ==
    IF p >= length THEN FALSE
    ELSE LET nextChar == At(inp, p) IN
         IF nextChar = ">" THEN FALSE
         ELSE IF nextChar \in {")", "&", "|", "?", ";"} THEN TRUE
         ELSE isExpressionPastName(inp, p + 1, length, foundName)

RECURSIVE isExpressionFrom(_, _, _, _)
isExpressionFrom(inp, p, length, foundName) ==
    IF p >= length THEN FALSE
    ELSE LET nextChar == At(inp, p) IN
         IF TestWordSlash(nextChar)
         THEN IF foundName THEN FALSE
              ELSE isExpressionFrom(inp, p + 1, length, foundName)
         ELSE IF nextChar = ">" THEN FALSE
         ELSE IF nextChar = " " THEN isExpressionFrom(inp, p + 1, length, TRUE)
         ELSE IF nextChar \in {")", "&", "|", "?", ";"} THEN TRUE
         ELSE isExpressionFrom(inp, p + 1, length, foundName)

isExpression(inp, current, length) ==
    isExpressionFrom(inp, current + 2, length, FALSE)

(***************************************************************************)
(* removeComments: one action per iteration of its loop                    *)
(***************************************************************************)

\* new Array(length): every slot is a hole
NewArray(length) == [i \in 1..length |-> undefined]

\* arr[i] = v for a 0-based i; a JS array grows, with holes, when i is past
\* its end
ArraySet(arr, i, v) ==
    IF i < Len(arr) THEN [arr EXCEPT ![i + 1] = v]
    ELSE arr \o [k \in 1..(i - Len(arr)) |-> undefined] \o <<v>>

\* arr.join(""): holes and undefined join as the empty string
RECURSIVE ArrayJoin(_)
ArrayJoin(arr) ==
    IF arr = <<>> THEN <<>>
    ELSE (IF Head(arr) = undefined THEN <<>> ELSE <<Head(arr)>>)
         \o ArrayJoin(Tail(arr))

rcPeekNext(inp, current) ==
    IF current < Len(inp) - 1 THEN At(inp, current + 1) ELSE null

\* the two characters as a pair; <<>> stands for null
rcPeekNext2(inp, current) ==
    IF current < Len(inp) - 2
    THEN <<At(inp, current + 1), At(inp, current + 2)>>
    ELSE <<>>

rcInitState ==
    [inCommentReact |-> FALSE, inCommentSingleLine |-> FALSE,
     inCommentMultiLine |-> FALSE, inStringSingleQuote |-> FALSE,
     inStringDoubleQuote |-> FALSE, inStringMultiLine |-> FALSE,
     elementCount |-> 0, jsCount |-> 0]

\* a removeComments that advances past a comment delimiter without writing
\* the characters it skips
rcLeaveSkipped(arr, current, skip) == arr

\* newInput[current] = " " for each of the `skip` characters a comment
\* delimiter spans before its last one
rcBlankSkipped(arr, current, skip) ==
    IF skip = 0 THEN arr
    ELSE IF skip = 1 THEN ArraySet(arr, current, " ")
    ELSE ArraySet(ArraySet(arr, current, " "), current + 1, " ")

\* a removeComments that takes a / for a comment opener wherever it stands
commentAnywhere(st) == TRUE

\* the condition of `case "/"`: outside elements, or in the JavaScript of an
\* element
commentAllowed(st) == st.elementCount = 0 \/ st.jsCount > 0

\* The body of the loop up to `newInput[current] = char`: the number of
\* characters skipped, the character written and the new state.
rcBranch(inp, current, st) ==
    LET char == At(inp, current)
        keep == [skip |-> 0, char |-> char, state |-> st]
    IN
    IF st.inCommentReact THEN
        IF char = "*" /\ rcPeekNext2(inp, current) = <<"/", "}">>
        THEN [skip |-> 2, char |-> " ",
              state |-> [st EXCEPT !.inCommentReact = FALSE]]
        ELSE IF char # "\n" THEN [keep EXCEPT !.char = " "] ELSE keep
    ELSE IF st.inCommentSingleLine THEN
        IF char = "\n"
        THEN [keep EXCEPT !.state = [st EXCEPT !.inCommentSingleLine = FALSE]]
        ELSE [keep EXCEPT !.char = " "]
    ELSE IF st.inCommentMultiLine THEN
        IF char = "*" /\ rcPeekNext(inp, current) = "/"
        THEN [skip |-> 1, char |-> " ",
              state |-> [st EXCEPT !.inCommentMultiLine = FALSE]]
        ELSE IF char # "\n" THEN [keep EXCEPT !.char = " "] ELSE keep
    ELSE IF st.inStringDoubleQuote THEN
        IF char = "\"" /\ At(inp, current - 1) # "\\"
        THEN [keep EXCEPT !.state = [st EXCEPT !.inStringDoubleQuote = FALSE]]
        ELSE keep
    ELSE IF st.inStringSingleQuote THEN
        IF char = "'" /\ At(inp, current - 1) # "\\"
        THEN [keep EXCEPT !.state = [st EXCEPT !.inStringSingleQuote = FALSE]]
        ELSE keep
    ELSE IF st.inStringMultiLine THEN
        IF char = Backtick
        THEN [keep EXCEPT !.state = [st EXCEPT !.inStringMultiLine = FALSE]]
        ELSE keep
    ELSE CASE char = "{" ->
                IF rcPeekNext2(inp, current) = <<"/", "*">>
                THEN [skip |-> 2, char |-> " ",
                      state |-> [st EXCEPT !.inCommentReact = TRUE]]
                ELSE IF st.elementCount > 0
                THEN [keep EXCEPT !.state = [st EXCEPT !.jsCount = @ + 1]]
                ELSE keep
           [] char = "}" ->
                IF st.elementCount > 0 /\ st.jsCount > 0
                THEN [keep EXCEPT !.state = [st EXCEPT !.jsCount = @ - 1]]
                ELSE keep
           [] char = "/" ->
                IF commentAllowed(st)
                THEN LET next == rcPeekNext(inp, current)
                         single == (next = "/")
                         multi == (~single /\ next = "*")
                         st2 == [st EXCEPT !.inCommentSingleLine = single,
                                           !.inCommentMultiLine = multi]
                     IN  IF single \/ multi
                         THEN [skip |-> 1, char |-> " ", state |-> st2]
                         ELSE [keep EXCEPT !.state = st2]
                ELSE keep
           [] char = "\"" ->
                [keep EXCEPT !.state = [st EXCEPT !.inStringDoubleQuote = TRUE]]
           [] char = "'" ->
                [keep EXCEPT !.state = [st EXCEPT !.inStringSingleQuote = TRUE]]
           [] char = Backtick ->
                [keep EXCEPT !.state = [st EXCEPT !.inStringMultiLine = TRUE]]
           [] char = "<" ->
                LET charNext == rcPeekNext(inp, current) IN
                IF TestAlphaGt(charNext) /\ ~isExpression(inp, current, Len(inp))
                THEN [keep EXCEPT !.state = [st EXCEPT !.elementCount = @ + 1]]
                ELSE IF charNext = "/"
                THEN [keep EXCEPT !.state = [st EXCEPT !.elementCount = @ - 1]]
                ELSE keep
           [] char = ">" ->
                IF At(inp, current - 1) = "/" /\ st.elementCount > 0
                THEN [keep EXCEPT !.state = [st EXCEPT !.elementCount = @ - 1]]
                ELSE keep
           [] OTHER -> keep

\* one iteration of `while (current < length)`
rcIteration(inp, r) ==
    LET b == rcBranch(inp, r.current, r.state)
        cur == r.current + b.skip
    IN  [current |-> cur + 1,
         newInput |-> ArraySet(rcBlankSkipped(r.newInput, r.current, b.skip),
                               cur, b.char),
         state |-> b.state]

rcInit(inp) ==
    [current |-> 0, newInput |-> NewArray(Len(inp)), state |-> rcInitState]

rcIdle == [current |-> 0, newInput |-> <<>>, state |-> rcInitState]

removeCommentsLoop ==
    /\ pc = "removeComments"
    /\ rc.current < Len(input)
    /\ rc' = rcIteration(input, rc)
    /\ UNCHANGED <<page, call, pc, input, opts, newInput, tk, tokens, ast,
                   generatedJs, output, error>>

removeCommentsReturn ==
    /\ pc = "removeComments"
    /\ rc.current >= Len(input)
    /\ newInput' = ArrayJoin(rc.newInput)
    /\ pc' = IF call = "compile" THEN "tokenizer" ELSE "done"
    /\ UNCHANGED <<page, call, input, opts, rc, tk, tokens, ast, generatedJs,
                   output, error>>


(***************************************************************************)
(* tokenizer                                                               *)
(***************************************************************************)

\* s.trim()
RECURSIVE TrimStart(_)
TrimStart(s) ==
    IF s # <<>> /\ Head(s) \in Whitespace THEN TrimStart(Tail(s)) ELSE s

RECURSIVE TrimEnd(_)
TrimEnd(s) ==
    IF s # <<>> /\ s[Len(s)] \in Whitespace
    THEN TrimEnd(SubSeq(s, 1, Len(s) - 1)) ELSE s

Trim(s) == TrimEnd(TrimStart(s))

\* JSON.stringify(s) for a string s
JsonEscape(c) ==
    CASE c = "\"" -> <<"\\", "\"">>
      [] c = "\\" -> <<"\\", "\\">>
      [] c = "\n" -> <<"\\", "n">>
      [] c = "\r" -> <<"\\", "r">>
      [] c = "\t" -> <<"\\", "t">>
      [] OTHER -> <<c>>

RECURSIVE JsonEscapeAll(_)
JsonEscapeAll(s) ==
    IF s = <<>> THEN <<>> ELSE JsonEscape(Head(s)) \o JsonEscapeAll(Tail(s))

\* a JSON.stringify that writes no quotes around the text
JSONstringifyBare(s) == JsonEscapeAll(s)

JSONstringify(s) == <<"\"">> \o JsonEscapeAll(s) \o <<"\"">>

\* /^[a-zA-Z0-9-_]*$/.test(s)
TestPropName(s) ==
    \A i \in 1..Len(s) : s[i] \in Lower \cup Upper \cup Digit \cup {"-", "_"}

\* /{\.\.\.(.+)}/.test(s): "{...", one or more characters that are no line
\* terminators, then "}"
TestSpread(s) ==
    \E i \in 1..Len(s) : \E j \in (i + 5)..Len(s) :
        /\ SubSeq(s, i, i + 3) = <<"{", ".", ".", ".">>
        /\ s[j] = "}"
        /\ \A k \in (i + 4)..(j - 1) : s[k] \notin {"\n", "\r"}

\* The pos of the e_end token pushed for addElementEnd is null.
NullPos == -1

\* nextElementPos(): the offset of the next element start at or after c, or
\* -1 for null.  The three string flags are q: "" outside strings, else the
\* quote character of the string the scan is in.
RECURSIVE nextElementPosFrom(_, _, _)
nextElementPosFrom(inp, c, q) ==
    IF c >= Len(inp) - 1 THEN -1
    ELSE LET char == At(inp, c) IN
         IF q = "\"" \/ q = "'"
         THEN nextElementPosFrom(inp, c + 1,
                  IF char = q /\ At(inp, c - 1) # "\\" THEN "" ELSE q)
         ELSE IF q = Backtick
         THEN nextElementPosFrom(inp, c + 1, IF char = Backtick THEN "" ELSE q)
         ELSE IF char \in {"\"", "'", Backtick}
         THEN nextElementPosFrom(inp, c + 1, char)
         ELSE IF /\ char = "<"
                 /\ TestAlphaGt(At(inp, c + 1))
                 /\ ~isExpression(inp, c, Len(inp))
         THEN c
         ELSE nextElementPosFrom(inp, c + 1, q)

nextElementPos(inp, current) == nextElementPosFrom(inp, current, "")

peekCurrent(inp, current) ==
    IF current < Len(inp) THEN At(inp, current) ELSE null

peekNext(inp, current) ==
    IF current < Len(inp) THEN At(inp, current + 1) ELSE null

\* a loopCheck() that counts and never throws
loopCheckNever(loopCount, length) == FALSE

\* loopCheck() throws when the incremented loopCount exceeds length
loopCheckThrows(loopCount, length) == loopCount + 1 > length

\* a safety check of tokenizeElement that counts and never throws
callCheckNever(callCount, maxRecursiveCalls) == FALSE

\* tokenizeElement's safety check throws when the incremented callCount
\* exceeds maxRecursiveCalls
callCheckThrows(callCount, maxRecursiveCalls) == callCount + 1 > maxRecursiveCalls

Token(type, value, p) == [type |-> type, value |-> value, pos |-> p]

\* state.currentElementState: null, undefined, or the record of
\* state.elementState (0-based index at) that it is the same object as
CesNull == [tag |-> "null", at |-> 0]
CesUndefined == [tag |-> "undefined", at |-> 0]
CesObject(i) == [tag |-> "object", at |-> i]

NewElementState ==
    [inJs |-> FALSE, jsBracketCount |-> 0, closeJs |-> FALSE,
     inPropJs |-> FALSE, jsPropBracketCount |-> 0]

\* the state record a tokenizeElement call starts with
NewState(inp, pos) ==
    [value |-> <<At(inp, pos)>>, elementStack |-> 0, elementState |-> <<>>,
     currentElementState |-> CesNull, inElement |-> TRUE,
     hasElementName |-> FALSE, elementClosed |-> FALSE,
     closeElement |-> FALSE, closingElement |-> FALSE, fatalError |-> FALSE,
     errorMessage |-> "", addElementEnd |-> FALSE, breakLoop |-> FALSE,
     addChild |-> FALSE, addChar |-> TRUE, hasProp |-> FALSE,
     inValue |-> FALSE, inPropString |-> FALSE, propStringChar |-> null,
     jsWithElement |-> FALSE]

IsObject(st) == st.currentElementState.tag = "object"
Ces(st) == st.elementState[st.currentElementState.at + 1]
CesSet(st, f, v) ==
    [st EXCEPT !.elementState[st.currentElementState.at + 1][f] = v]

\* state.elementStack++, a new currentElementState, elementState.push(it)
PushElement(st) ==
    [st EXCEPT !.elementStack = @ + 1,
               !.currentElementState = CesObject(Len(st.elementState)),
               !.elementState = Append(@, NewElementState)]

\* state.elementStack--, elementState.pop(), currentElementState reassigned
PopElement(st) ==
    LET n == st.elementStack - 1
        es == IF st.elementState = <<>> THEN <<>>
              ELSE SubSeq(st.elementState, 1, Len(st.elementState) - 1)
    IN  [st EXCEPT !.elementStack = n,
                   !.elementState = es,
                   !.currentElementState =
                       IF n = 0 THEN CesNull
                       ELSE IF n >= 1 /\ n <= Len(es) THEN CesObject(n - 1)
                       ELSE CesUndefined]

\* The machine record the loop bodies work on: the closure's current, char
\* and tokens, the state record of the running call, and how the body left:
\* "next" (fell through), "continue", "break", "call", "return" or "throw".
Machine(t, toks, st) ==
    [current |-> t.current, char |-> t.char, tokens |-> toks, st |-> st,
     ctl |-> "next", err |-> ""]

Throw(m, msg) == [m EXCEPT !.ctl = "throw", !.err = msg]
\* reading a field of a currentElementState that is null or undefined
TypeError(m) == Throw(m, "TypeError")

\* a push that leaves out the token of a closing tag
PushTokenButClosingTag(m, type, value, p) ==
    IF type = "e_end" /\ value # <<"/", ">">> THEN m
    ELSE [m EXCEPT !.tokens = Append(@, [type |-> type, value |-> value, pos |-> p])]

PushToken(m, type, value, p) ==
    [m EXCEPT !.tokens = Append(@, Token(type, value, p))]

\* ---- the attribute loop (the inner while loop), one iteration ----

\* value = ""; breakLoop = false; break
attrBreak(m) ==
    [m EXCEPT !.st.value = <<>>, !.st.breakLoop = FALSE, !.ctl = "break"]

\* case "="
attrCaseEquals(inp, m) ==
    IF ~IsObject(m.st) THEN TypeError(m)
    ELSE IF Ces(m.st).inPropJs THEN m
    ELSE LET m1 == IF Trim(m.st.value) # <<>>
                   THEN [PushToken(m, "e_prop", m.st.value, m.current)
                            EXCEPT !.st.hasProp = TRUE, !.st.inValue = TRUE]
                   ELSE m
             m2 == [m1 EXCEPT !.st.value = <<>>, !.ctl = "continue"]
             nextChar == peekCurrent(inp, m.current)
         IN  IF nextChar \in {"\"", "'"}
             THEN [m2 EXCEPT !.st.inPropString = TRUE,
                             !.st.propStringChar = nextChar,
                             !.current = @ + 1]
             ELSE IF nextChar = "{"
             THEN [m2 EXCEPT !.st = CesSet(CesSet(@, "inPropJs", TRUE),
                                           "jsPropBracketCount", 0),
                             !.current = @ + 1]
             ELSE m2

\* case state.propStringChar
attrCaseQuote(m) ==
    IF m.st.inPropString
    THEN [PushToken(m, IF m.st.hasProp THEN "e_value" ELSE "e_prop",
                    JSONstringify(m.st.value), m.current)
             EXCEPT !.st.inPropString = FALSE, !.st.inValue = FALSE,
                    !.st.hasProp = FALSE, !.st.value = <<>>,
                    !.ctl = "continue"]
    ELSE m

\* case "}"
attrCaseCloseBrace(m) ==
    IF ~IsObject(m.st) THEN TypeError(m)
    ELSE IF ~Ces(m.st).inPropJs THEN m
    ELSE IF Ces(m.st).jsPropBracketCount # 0
    THEN [m EXCEPT !.st = CesSet(@, "jsPropBracketCount",
                                 Ces(m.st).jsPropBracketCount - 1)]
    ELSE LET m1 == [m EXCEPT !.st = CesSet(@, "inPropJs", FALSE)]
             m2 == IF Trim(m.st.value) = <<>> THEN m1
                   ELSE IF m.st.jsWithElement
                   THEN [PushToken(m1, "e_child_js_end", m.st.value, m.current)
                            EXCEPT !.st.jsWithElement = FALSE]
                   ELSE IF Trim(m.st.value) # <<">">>
                   THEN [PushToken(m1, "e_value", m.st.value, m.current)
                            EXCEPT !.st.hasProp = FALSE]
                   ELSE m1
         IN  [m2 EXCEPT !.st.inValue = FALSE, !.st.value = <<>>,
                        !.ctl = "continue"]

\* case " ", "\t", "\r", "\n"
attrCaseSpace(m) ==
    IF ~IsObject(m.st) THEN TypeError(m)
    ELSE IF Ces(m.st).inPropJs THEN m
    ELSE LET m1 == IF Trim(m.st.value) # <<>>
                   THEN PushToken(m, IF m.st.hasProp THEN "e_value" ELSE "e_prop",
                                  m.st.value, m.current)
                   ELSE m
         IN  [m1 EXCEPT !.st.inValue = FALSE, !.st.value = <<>>]

\* case "/"
attrCaseSlash(inp, m) ==
    IF peekCurrent(inp, m.current) = ">"
    THEN [m EXCEPT !.current = @ - 1, !.st.breakLoop = TRUE,
                   !.st.hasElementName = FALSE]
    ELSE m

\* case "<": up to the recursive call tokenizeElement(current, false)
attrCaseLess(inp, m) ==
    IF ~IsObject(m.st) THEN TypeError(m)
    ELSE IF Ces(m.st).inPropJs /\ peekCurrent(inp, m.current) # " "
    THEN LET m1 == IF Trim(m.st.value) # <<>>
                   THEN [PushToken(m, "e_child_js_start", m.st.value, m.current)
                            EXCEPT !.st.value = <<>>, !.st.jsWithElement = TRUE]
                   ELSE m
         IN  [m1 EXCEPT !.current = @ - 1, !.ctl = "call"]
    ELSE m

\* case "{"
attrCaseOpenBrace(m) ==
    IF ~IsObject(m.st) THEN TypeError(m)
    ELSE IF Ces(m.st).inPropJs
    THEN [m EXCEPT !.st = CesSet(@, "jsPropBracketCount",
                                 Ces(m.st).jsPropBracketCount + 1)]
    ELSE m

\* case ">"
attrCaseGreater(m) ==
    IF ~IsObject(m.st) THEN TypeError(m)
    ELSE IF ~Ces(m.st).inPropJs
    THEN [m EXCEPT !.st.breakLoop = TRUE, !.st.hasElementName = FALSE]
    ELSE m

\* switch (char) of the attribute loop; the cases are tried in source order
attrSwitch(inp, m) ==
    IF m.char = "=" THEN attrCaseEquals(inp, m)
    ELSE IF m.char = m.st.propStringChar THEN attrCaseQuote(m)
    ELSE IF m.char = "}" THEN attrCaseCloseBrace(m)
    ELSE IF m.char \in {" ", "\t", "\r", "\n"} THEN attrCaseSpace(m)
    ELSE IF m.char = "/" THEN attrCaseSlash(inp, m)
    ELSE IF m.char = "<" THEN attrCaseLess(inp, m)
    ELSE IF m.char = "{" THEN attrCaseOpenBrace(m)
    ELSE IF m.char = ">" THEN attrCaseGreater(m)
    ELSE m

\* if (state.breakLoop) { ... break; } of the attribute loop
attrBreakLoop(inp, m) ==
    LET trimValue == Trim(m.st.value)
        noToken == m.tokens = <<>>
        lastType == m.tokens[Len(m.tokens)].type
        unhandled ==
            IF trimValue # <<>>
            THEN Throw(m, "Unhandled character in element properties")
            ELSE attrBreak(m)
        propOrUnhandled ==
            IF /\ m.char = ">"
               /\ trimValue # <<>>
               /\ (TestPropName(trimValue) \/ TestSpread(trimValue))
            THEN IF noToken THEN TypeError(m)
                 ELSE IF lastType \in {"e_start", "e_value"}
                 THEN attrBreak(PushToken(m, "e_prop", trimValue, m.current))
                 ELSE unhandled
            ELSE unhandled
    IN  IF m.st.value = <<"/">> /\ m.char = ">"
        THEN IF noToken THEN TypeError(m)
             ELSE IF lastType = "e_start"
             THEN LET m1 == PushToken(m, "e_end", m.st.value \o <<m.char>>,
                                      m.current)
                  IN  IF m.st.elementStack <= 1
                      THEN [m1 EXCEPT !.current =
                                         IF peekCurrent(inp, m.current) # "}"
                                         THEN @ - 1 ELSE @,
                                      !.ctl = "return"]
                      ELSE attrBreak([m1 EXCEPT !.st = PopElement(@)])
             ELSE propOrUnhandled
        ELSE propOrUnhandled

\* what follows the switch of the attribute loop
attrAfterSwitch(inp, m) ==
    IF m.ctl # "next" THEN m
    ELSE IF m.st.breakLoop THEN attrBreakLoop(inp, m)
    ELSE [m EXCEPT !.st.value = @ \o (IF m.char = "" THEN <<>> ELSE <<m.char>>),
                   !.ctl = "continue"]

\* one iteration of the attribute loop after loopCheck():
\* char = input[current]; current++; ...
attrIteration(inp, m0) ==
    LET m == [m0 EXCEPT !.char = At(inp, m0.current), !.current = @ + 1]
    IN  IF m.st.inPropString /\ m.char # m.st.propStringChar
        THEN [m EXCEPT !.st.value = @ \o <<m.char>>, !.ctl = "continue"]
        ELSE attrAfterSwitch(inp, attrSwitch(inp, m))

\* after the recursive call returns: char = ""; if (jsWithElement) current++
attrAfterCall(inp, m0) ==
    LET m == [m0 EXCEPT !.char = "",
                        !.current = IF m0.st.jsWithElement THEN @ + 1 ELSE @]
    IN  attrAfterSwitch(inp, m)

\* ---- the rest of an iteration of tokenizeElement's loop ----

AppendChar(v, c) == IF c = "" THEN v ELSE v \o <<c>>

\* switch (char) at the end of the `if (state.inElement)` branch
elementSwitch(inp, m) ==
    IF m.char = "/" THEN
        IF m.st.value = <<>> \/ m.st.value = <<"<">>
        THEN [m EXCEPT !.st.closingElement = TRUE]
        ELSE IF peekCurrent(inp, m.current) = ">"
        THEN [m EXCEPT !.st.closeElement = TRUE, !.st.inElement = FALSE,
                       !.st.addElementEnd = TRUE]
        ELSE IF peekNext(inp, m.current) = ">"
        THEN [m EXCEPT !.st.closeElement = TRUE, !.st.hasElementName = TRUE,
                       !.char = "", !.current = @ - 1]
        ELSE [m EXCEPT !.st.fatalError = TRUE,
                       !.st.errorMessage =
                           "Error found a \"/\" character in element"]
    ELSE IF m.char = ">"
    THEN [m EXCEPT !.st.closeElement = TRUE, !.st.inElement = FALSE]
    ELSE IF m.char \in {" ", "\t", "\n", "\r"}
    THEN [m EXCEPT !.st.hasElementName = TRUE, !.st.closeElement = TRUE]
    ELSE m

\* switch (char) of the else branch (children of the element)
childSwitch(inp, m) ==
    IF m.char = "}" THEN
        IF ~IsObject(m.st) THEN TypeError(m)
        ELSE IF ~Ces(m.st).inJs THEN m
        ELSE IF Ces(m.st).jsBracketCount = 0
        THEN [m EXCEPT !.st = CesSet(CesSet(@, "inJs", FALSE), "closeJs", TRUE),
                       !.st.addChild = TRUE, !.st.addChar = FALSE]
        ELSE [m EXCEPT !.st = CesSet(@, "jsBracketCount",
                                     Ces(m.st).jsBracketCount - 1)]
    ELSE IF m.char = "{" THEN
        IF ~IsObject(m.st) THEN TypeError(m)
        ELSE IF Ces(m.st).inJs
        THEN [m EXCEPT !.st = CesSet(@, "jsBracketCount",
                                     Ces(m.st).jsBracketCount + 1)]
        ELSE [m EXCEPT !.st = CesSet(CesSet(@, "inJs", TRUE),
                                     "jsBracketCount", 0),
                       !.st.addChild = TRUE, !.st.addChar = FALSE]
    ELSE IF m.char = "<" THEN
        IF /\ TestAlphaGtSlash(peekNext(inp, m.current))
           /\ ~isExpression(inp, m.current, Len(inp))
        THEN [m EXCEPT !.st.addChild = TRUE, !.st.inElement = TRUE]
        ELSE m
    ELSE m

\* if (state.addChild) { ... }
addChildToken(m) ==
    IF ~m.st.addChild THEN m
    ELSE IF ~IsObject(m.st) THEN TypeError(m)
    ELSE LET ces == Ces(m.st)
             isJS == \/ ces.closeJs
                     \/ (ces.inJs /\ ces.jsBracketCount > 0)
                     \/ (ces.inJs /\ m.st.inElement)
             m1 == IF Trim(m.st.value) = <<>>
                   THEN IF m.st.value # <<>>
                        THEN PushToken(m, "e_child_whitespace", m.st.value,
                                       m.current)
                        ELSE m
                   ELSE PushToken(m, IF isJS THEN "e_child_js"
                                     ELSE "e_child_text",
                                  m.st.value, m.current)
             m2 == [m1 EXCEPT !.st.addChild = FALSE, !.st.value = <<>>]
         IN  IF ces.closeJs
             THEN [m2 EXCEPT !.st = CesSet(CesSet(@, "closeJs", FALSE),
                                           "inJs", FALSE)]
             ELSE m2

\* if (state.closeElement) { ... } else { ... }
closeElementStep(m) ==
    IF m.st.closeElement THEN
        LET v == IF m.char \in {" ", "\t", "\n", "\r"} THEN m.st.value
                 ELSE AppendChar(m.st.value, m.char)
            m1 == IF m.st.closingElement
                  THEN LET p == PopElement(m.st) IN
                       [PushToken(m, "e_end", v, m.current)
                           EXCEPT !.st = [p EXCEPT !.hasElementName = FALSE,
                                                   !.elementClosed =
                                                       IF p.elementStack = 0
                                                       THEN TRUE ELSE @]]
                  ELSE IF v = <<">">>
                  THEN [m EXCEPT !.current = @ - 1]
                  ELSE [PushToken(m, "e_start", v, m.current)
                           EXCEPT !.st = PushElement(@)]
            m2 == [m1 EXCEPT !.st.value = <<>>, !.st.closeElement = FALSE,
                             !.st.closingElement = FALSE]
        IN  IF m.st.addElementEnd
            THEN [PushToken(m2, "e_end", <<>>, NullPos)
                     EXCEPT !.st.addElementEnd = FALSE]
            ELSE m2
    ELSE [m EXCEPT !.st.value = IF m.st.addChar THEN AppendChar(@, m.char) ELSE @,
                   !.st.addChar = TRUE]

\* the end of the iteration: break when the element was closed, else current++
iterationEnd(m) ==
    IF m.ctl = "throw" THEN m
    ELSE IF m.st.elementClosed THEN [m EXCEPT !.ctl = "end"]
    ELSE [m EXCEPT !.current = @ + 1, !.ctl = "next"]

\* an iteration from the switch that ends the inElement branch on
elementRest(inp, m) == iterationEnd(closeElementStep(elementSwitch(inp, m)))

\* an iteration in the children of the element
childRest(inp, m) ==
    LET m1 == childSwitch(inp, m)
        m2 == IF m1.ctl = "throw" THEN m1 ELSE addChildToken(m1)
    IN  IF m2.ctl = "throw" THEN m2 ELSE iterationEnd(closeElementStep(m2))

\* ---- the tokenizer as a state machine ----

\* the input parameter of tokenizer
tkInput == IF call = "compile" THEN newInput ELSE input

tkInit == [current |-> 0, char |-> "", pos |-> -1, loopCount |-> 0,
           callCount |-> 0, stack |-> <<>>]

Frame(st, at) == [state |-> st, at |-> at]
Top(t) == t.stack[Len(t.stack)]

Result(t, toks, err) == [tk |-> t, tokens |-> toks, err |-> err]

\* the closure variables and the running call's frame after a loop body
FromMachine(t, m, at) ==
    [t EXCEPT !.current = m.current, !.char = m.char,
              !.stack[Len(t.stack)] = Frame(m.st, at)]

\* tokenizeElement(startPosition, firstNode) up to its loop
tokenizeElementEnter(inp, t, toks, startPosition, firstNode, maxRecursiveCalls) ==
    LET t1 == [t EXCEPT !.callCount = @ + 1] IN
    IF callCheckThrows(t.callCount, maxRecursiveCalls)
    THEN Result(t1, toks, "Call count exceeded in tokenizer")
    ELSE Result([t1 EXCEPT !.current = startPosition + 1,
                           !.stack = Append(@, Frame(NewState(inp, t.pos),
                                                     "outer"))],
                IF t.current < startPosition /\ firstNode
                THEN Append(toks, Token("js",
                                        Substring(inp, t.current, startPosition),
                                        t.current))
                ELSE toks,
                "")

\* where an iteration of tokenizeElement's loop leaves the call
restOutcome(t, m) ==
    IF m.ctl = "throw" THEN Result(FromMachine(t, m, "outer"), m.tokens, m.err)
    ELSE Result(FromMachine(t, m, IF m.ctl = "end" THEN "end" ELSE "outer"),
                m.tokens, "")

\* where an iteration of the attribute loop leaves the call
attrOutcome(inp, t, m, maxRecursiveCalls) ==
    IF m.ctl = "throw" THEN Result(FromMachine(t, m, "inner"), m.tokens, m.err)
    ELSE IF m.ctl = "continue"
    THEN Result(FromMachine(t, m, "inner"), m.tokens, "")
    ELSE IF m.ctl = "return"
    THEN Result(FromMachine(t, m, "return"), m.tokens, "")
    ELSE IF m.ctl = "call"
    THEN tokenizeElementEnter(inp, FromMachine(t, m, "call"), m.tokens,
                              m.current, FALSE, maxRecursiveCalls)
    ELSE restOutcome(t, elementRest(inp, [m EXCEPT !.ctl = "next"]))

\* one iteration of tokenizeElement's loop, up to the attribute loop when the
\* element has its name
tokenizeElementIteration(inp, t, toks) ==
    LET st == Top(t).state
        t1 == [t EXCEPT !.loopCount = @ + 1, !.char = At(inp, t.current)]
        m == Machine(t1, toks, st)
    IN  IF t.current >= Len(inp)
        THEN Result([t EXCEPT !.stack[Len(t.stack)].at = "end"], toks, "")
        ELSE IF loopCheckThrows(t.loopCount, Len(inp))
        THEN Result(t1, toks, "Endless loop encountered in tokenizer")
        ELSE IF st.inElement /\ st.hasElementName
        THEN Result(FromMachine(t1,
                        [m EXCEPT !.st.value = @ \o <<m.char>>,
                                  !.current = @ + 1,
                                  !.st.breakLoop = FALSE,
                                  !.st.hasProp = FALSE,
                                  !.st.inValue = FALSE],
                        "inner"),
                    toks, "")
        ELSE IF st.inElement
        THEN restOutcome(t1, elementRest(inp, m))
        ELSE restOutcome(t1, childRest(inp, m))

\* one iteration of the attribute loop, and what follows the loop when it ends
attributeIteration(inp, t, toks, maxRecursiveCalls) ==
    LET st == Top(t).state
        t1 == [t EXCEPT !.loopCount = @ + 1]
    IN  IF t.current >= Len(inp)
        THEN restOutcome(t, elementRest(inp, Machine(t, toks, st)))
        ELSE IF loopCheckThrows(t.loopCount, Len(inp))
        THEN Result(t1, toks, "Endless loop encountered in tokenizer")
        ELSE attrOutcome(inp, t1, attrIteration(inp, Machine(t1, toks, st)),
                         maxRecursiveCalls)

\* the end of a tokenizeElement call: the fatalError check after the loop (a
\* return inside the loop skips it), then the caller goes on
tokenizeElementReturn(inp, t, toks, maxRecursiveCalls) ==
    LET top == Top(t)
        t1 == [t EXCEPT !.stack = SubSeq(@, 1, Len(@) - 1)]
    IN  IF top.at = "end" /\ top.state.fatalError
        THEN Result(t, toks, top.state.errorMessage)
        ELSE IF t1.stack = <<>>
        THEN Result([t1 EXCEPT !.current = @ + 1], toks, "")
        ELSE attrOutcome(inp, t1,
                         attrAfterCall(inp, Machine(t1, toks, Top(t1).state)),
                         maxRecursiveCalls)

\* one iteration of tokenizer's main loop; done says that tokens is returned
tokenizerIteration(inp, t, toks, maxRecursiveCalls) ==
    LET t1 == [t EXCEPT !.loopCount = @ + 1]
        p == nextElementPos(inp, t.current)
    IN  IF loopCheckThrows(t.loopCount, Len(inp))
        THEN [done |-> FALSE,
              res |-> Result(t1, toks, "Endless loop encountered in tokenizer")]
        ELSE IF p = -1
        THEN [done |-> TRUE,
              res |-> Result([t1 EXCEPT !.pos = p],
                             Append(toks, Token("js",
                                 Substring(inp, t.current, Len(inp)), t.current)),
                             "")]
        ELSE [done |-> FALSE,
              res |-> tokenizeElementEnter(inp, [t1 EXCEPT !.pos = p], toks, p,
                                           TRUE, maxRecursiveCalls)]

AfterTokenizer == IF call = "compile" THEN "parser" ELSE "done"

TokenizerStep(r) ==
    /\ tk' = r.tk
    /\ tokens' = r.tokens
    /\ error' = r.err
    /\ pc' = IF r.err # "" THEN "error" ELSE pc
    /\ UNCHANGED <<page, call, input, opts, rc, newInput, ast, generatedJs, output>>

tokenizerLoop ==
    /\ pc = "tokenizer"
    /\ tk.stack = <<>>
    /\ tk.current < Len(tkInput)
    /\ LET it == tokenizerIteration(tkInput, tk, tokens, opts.maxRecursiveCalls)
       IN  /\ tk' = it.res.tk
           /\ tokens' = it.res.tokens
           /\ error' = it.res.err
           /\ pc' = IF it.res.err # "" THEN "error"
                    ELSE IF it.done THEN AfterTokenizer ELSE pc
    /\ UNCHANGED <<page, call, input, opts, rc, newInput, ast, generatedJs, output>>

tokenizerReturn ==
    /\ pc = "tokenizer"
    /\ tk.stack = <<>>
    /\ tk.current >= Len(tkInput)
    /\ pc' = AfterTokenizer
    /\ UNCHANGED <<page, call, input, opts, rc, newInput, tk, tokens, ast,
                   generatedJs, output, error>>

tokenizeElementLoop ==
    /\ pc = "tokenizer"
    /\ tk.stack # <<>>
    /\ Top(tk).at = "outer"
    /\ TokenizerStep(tokenizeElementIteration(tkInput, tk, tokens))

attributeLoop ==
    /\ pc = "tokenizer"
    /\ tk.stack # <<>>
    /\ Top(tk).at = "inner"
    /\ TokenizerStep(attributeIteration(tkInput, tk, tokens,
                                        opts.maxRecursiveCalls))

tokenizeElementEnd ==
    /\ pc = "tokenizer"
    /\ tk.stack # <<>>
    /\ Top(tk).at \in {"end", "return"}
    /\ TokenizerStep(tokenizeElementReturn(tkInput, tk, tokens,
                                           opts.maxRecursiveCalls))

(***************************************************************************)
(* parser                                                                  *)
(***************************************************************************)

\* s.replace(c, "") for a one-character string c: the first c is removed
RECURSIVE RemoveFirst(_, _)
RemoveFirst(s, c) ==
    IF s = <<>> THEN <<>>
    ELSE IF Head(s) = c THEN Tail(s)
    ELSE <<Head(s)>> \o RemoveFirst(Tail(s), c)

\* token.value.replace("<", "").replace("/", "").replace(">", "")
TagName(v) == RemoveFirst(RemoveFirst(RemoveFirst(v, "<"), "/"), ">")

\* the longest prefix of s made of characters of S
RECURSIVE TakeWhile(_, _)
TakeWhile(s, S) ==
    IF s # <<>> /\ Head(s) \in S
    THEN <<Head(s)>> \o TakeWhile(Tail(s), S) ELSE <<>>

\* the name that /(\/\/|\/\*|\/\*\*)\s+@word\s+([a-zA-Z.]+)/ captures at
\* offset i of s (0-based), or <<>> when it does not match there
HintAt(s, i, word) ==
    LET afterMark(k) ==
            LET ws1 == TakeWhile(Substring(s, k, Len(s)), Whitespace)
                a == k + Len(ws1)
                w == <<"@">> \o word
                ws2 == TakeWhile(Substring(s, a + Len(w), Len(s)), Whitespace)
                b == a + Len(w) + Len(ws2)
            IN  IF /\ ws1 # <<>>
                   /\ Substring(s, a, a + Len(w)) = w
                   /\ ws2 # <<>>
                THEN TakeWhile(Substring(s, b, Len(s)),
                               Lower \cup Upper \cup {"."})
                ELSE <<>>
    IN  IF At(s, i) = "/" /\ At(s, i + 1) \in {"/", "*"}
        THEN IF afterMark(i + 2) # <<>> THEN afterMark(i + 2)
             ELSE IF At(s, i + 1) = "*" /\ At(s, i + 2) = "*"
             THEN afterMark(i + 3)
             ELSE <<>>
        ELSE <<>>

\* regex.exec(input): the name of the first hint, or <<>> when match is null
RECURSIVE HintFrom(_, _, _)
HintFrom(s, i, word) ==
    IF i >= Len(s) THEN <<>>
    ELSE IF HintAt(s, i, word) # <<>> THEN HintAt(s, i, word)
    ELSE HintFrom(s, i + 1, word)

Hint(s, word) == HintFrom(s, 0, word)

\* a prop's value: null, a string, a node returned by walk, or the list that
\* walk returns for an e_child_js_start
PropNull == [kind |-> "null", v |-> <<>>]
PropString(v) == [kind |-> "string", v |-> v]
PropNode(n) == [kind |-> "node", v |-> n]
PropList(l) == [kind |-> "list", v |-> l]

\* the variable `value` of a walk call: undefined until an e_child_js sets it
ValueUndefined == [defined |-> FALSE, v |-> <<>>]
ValueString(v) == [defined |-> TRUE, v |-> v]

\* the e_child_js value: trimmed, without one leading "{" and one trailing "}"
ChildJsValue(v) ==
    LET t == Trim(v)
        a == IF t # <<>> /\ Head(t) = "{" THEN Tail(t) ELSE t
    IN  IF a # <<>> /\ a[Len(a)] = "}" THEN SubSeq(a, 1, Len(a) - 1) ELSE a

\* an isClass that looks at the first character only
IsClassNameUpperOnly(elName) == elName # <<>> /\ Head(elName) \in Upper

\* isClass of a createElement node
IsClassName(elName) ==
    \/ (elName # <<>> /\ Head(elName) \in Upper)
    \/ \E i \in 1..Len(elName) : elName[i] = "."

\* a count check that accepts every pair of counts
countsAccepted(e_start_count, e_end_count) == FALSE

\* e_start_count !== e_end_count
countsDiffer(e_start_count, e_end_count) == e_start_count # e_end_count

\* a test of the closing name that accepts every name
endNameAccepted(endName, name) == FALSE

\* endName !== node.name && endName !== ""
endNameMismatch(endName, name) == endName # name /\ endName # <<>>

ParserInit ==
    [current |-> 0, callCount |-> 0, e_start_count |-> 0, e_end_count |-> 0,
     err |-> ""]

Walked(ps, node) == [ps |-> ps, node |-> node]
WalkThrow(ps, msg) == [ps |-> [ps EXCEPT !.err = msg], node |-> <<>>]

RECURSIVE walk(_, _, _, _, _)
RECURSIVE walkElement(_, _, _, _, _)
RECURSIVE walkJsList(_, _, _, _, _)

\* the while loop of walk's e_start branch; value is walk's variable `value`
walkElement(toks, cfg, ps, node, value) ==
    IF ps.current >= Len(toks) THEN Walked(ps, node)
    ELSE
    LET token == toks[ps.current + 1]
        ps1 == [ps EXCEPT !.current = @ + 1]
        child(v) == [type |-> token.type, value |-> v, pos |-> token.pos]
        addChild(c) == [node EXCEPT !.children = Append(@, c)]
    IN
    CASE token.type = "e_prop" ->
            LET nextType == IF ps1.current < Len(toks)
                            THEN toks[ps1.current + 1].type ELSE null
                got == IF nextType \in {"e_value", "js"}
                       THEN Walked([ps1 EXCEPT !.current = @ + 1],
                                   PropString(toks[ps1.current + 1].value))
                       ELSE IF nextType = "e_start"
                       THEN LET w == walk(toks, cfg, ps1, node.stackCount + 1, null)
                            IN  Walked(w.ps, PropNode(w.node))
                       ELSE IF nextType = "e_child_js_start"
                       THEN LET w == walk(toks, cfg, ps1, node.stackCount + 1,
                                          "e_child_js_start")
                            IN  Walked(w.ps, PropList(w.node))
                       ELSE Walked(ps1, PropNull)
                prop == [name |-> token.value, value |-> got.node,
                         pos |-> token.pos]
            IN  IF got.ps.err # "" THEN Walked(got.ps, node)
                ELSE walkElement(toks, cfg, got.ps,
                                 IF Trim(token.value) # <<>>
                                 THEN [node EXCEPT !.props = Append(@, prop)]
                                 ELSE node,
                                 value)
      [] token.type = "e_child_js" ->
            IF Trim(token.value) # <<>>
            THEN LET v == ChildJsValue(token.value)
                 IN  walkElement(toks, cfg, ps1,
                                 addChild(child(ValueString(v))), ValueString(v))
            ELSE walkElement(toks, cfg, ps1, node, value)
      [] token.type \in {"e_child_js_start", "e_child_js_end"} ->
            walkElement(toks, cfg, ps1, addChild(child(value)), value)
      [] token.type = "e_child_text" ->
            walkElement(toks, cfg, ps1,
                        IF Trim(token.value) # <<>>
                        THEN addChild(child(ValueString(token.value)))
                        ELSE node,
                        value)
      [] token.type = "e_child_whitespace" ->
            walkElement(toks, cfg, ps1,
                        addChild(child(ValueString(token.value))), value)
      [] token.type = "e_end" ->
            LET endName == TagName(token.value) IN
            IF endNameMismatch(endName, node.name)
            THEN WalkThrow(ps1, "Found closing element that does not match opening element")
            ELSE Walked([ps1 EXCEPT !.e_end_count = @ + 1], node)
      [] token.type = "e_start" ->
            LET w == walk(toks, cfg, ps, node.stackCount + 1, null) IN
            IF w.ps.err # "" THEN Walked(w.ps, node)
            ELSE walkElement(toks, cfg, w.ps,
                             addChild([type |-> "e_start", value |-> w.node,
                                       pos |-> token.pos]),
                             value)
      [] OTHER -> WalkThrow(ps1, "Tokens are out of order 1")

\* the while loop of walk's e_child_js_start branch
walkJsList(toks, cfg, ps, stackCount, nodes) ==
    IF ps.current >= Len(toks)
    THEN WalkThrow(ps, "Tokens are out of order 2")
    ELSE
    LET token == toks[ps.current + 1]
        ps1 == [ps EXCEPT !.current = @ + 1]
    IN  IF token.type = "e_start"
        THEN LET w == walk(toks, cfg, ps, stackCount + 1, null) IN
             IF w.ps.err # "" THEN w
             ELSE walkJsList(toks, cfg, w.ps, stackCount, Append(nodes, w.node))
        ELSE IF token.type = "e_child_js_end"
        THEN Walked(ps1, Append(nodes, token))
        ELSE WalkThrow(ps1, "Found unexpected token type in JS child prop")

walk(toks, cfg, ps0, stackCount, startingToken) ==
    LET psc == [ps0 EXCEPT !.callCount = @ + 1] IN
    IF psc.callCount > cfg.maxRecursiveCalls
    THEN WalkThrow(psc, "Call count exceeded in parser")
    ELSE
    LET token == toks[psc.current + 1]
        ps == [psc EXCEPT !.current = @ + 1]
    IN  IF token.type = "js"
        THEN Walked(ps, [type |-> "js", value |-> token.value,
                         pos |-> token.pos, stackCount |-> stackCount])
        ELSE IF token.type = "e_start"
        THEN LET tag == TagName(token.value)
                 elName == IF tag = <<>> THEN cfg.pragmaFrag ELSE tag
             IN  walkElement(toks, cfg,
                             [ps EXCEPT !.e_start_count = @ + 1],
                             [type |-> "createElement", name |-> elName,
                              isClass |-> IsClassName(elName), props |-> <<>>,
                              children |-> <<>>, pos |-> token.pos,
                              stackCount |-> stackCount],
                             ValueUndefined)
        ELSE IF token.type = "e_child_js_start" /\ token.type = startingToken
        THEN walkJsList(toks, cfg, ps, stackCount, <<token>>)
        ELSE WalkThrow(ps, "Tokens are out of order 2")

\* while (current < tokenCount) { ast.body.push(walk(0)); }
RECURSIVE parserLoop(_, _, _, _)
parserLoop(toks, cfg, ps, body) ==
    IF ps.current >= Len(toks) \/ ps.err # ""
    THEN [ps |-> ps, body |-> body]
    ELSE LET w == walk(toks, cfg, ps, 0, null)
         IN  parserLoop(toks, cfg, w.ps,
                        IF w.ps.err # "" THEN body ELSE Append(body, w.node))

\* parser(tokens, input): the AST, or the message of the Error thrown
parser(toks, inp, maxRecursiveCalls, pragmaFrag) ==
    LET hint == Hint(inp, <<"j", "s", "x", "F", "r", "a", "g">>)
        cfg == [maxRecursiveCalls |-> maxRecursiveCalls,
                pragmaFrag |-> IF hint # <<>> THEN hint ELSE pragmaFrag]
        r == parserLoop(toks, cfg, ParserInit, <<>>)
    IN  IF r.ps.err # "" THEN [err |-> r.ps.err, ast |-> <<>>]
        ELSE IF countsDiffer(r.ps.e_start_count, r.ps.e_end_count)
        THEN [err |-> "The number of opening elements does not match the number closing elements",
              ast |-> <<>>]
        ELSE [err |-> "",
              ast |-> [type |-> "program", body |-> r.body, pos |-> NullPos]]

(***************************************************************************)
(* codeGenerator                                                           *)
(***************************************************************************)

Spaces(n) == [i \in 1..n |-> " "]

\* s.endsWith(t)
EndsWith(s, t) ==
    Len(s) >= Len(t) /\ SubSeq(s, Len(s) - Len(t) + 1, Len(s)) = t

\* the text content of a <div> whose innerHTML is s, for the named entities
\* &amp; &lt; &gt; &quot; (the platform DOM does the decoding)
RECURSIVE HtmlDecode(_)
HtmlDecode(s) ==
    LET starts(t) == Len(s) >= Len(t) /\ SubSeq(s, 1, Len(t)) = t
        rest(t) == HtmlDecode(SubSeq(s, Len(t) + 1, Len(s)))
    IN  IF s = <<>> THEN <<>>
        ELSE IF starts(<<"&", "a", "m", "p", ";">>)
        THEN <<"&">> \o rest(<<"&", "a", "m", "p", ";">>)
        ELSE IF starts(<<"&", "l", "t", ";">>)
        THEN <<"<">> \o rest(<<"&", "l", "t", ";">>)
        ELSE IF starts(<<"&", "g", "t", ";">>)
        THEN <<">">> \o rest(<<"&", "g", "t", ";">>)
        ELSE IF starts(<<"&", "q", "u", "o", "t", ";">>)
        THEN <<"\"">> \o rest(<<"&", "q", "u", "o", "t", ";">>)
        ELSE <<Head(s)>> \o HtmlDecode(Tail(s))

\* String(x) of an entry of childJs, and the text join() gives it
UndefinedText == <<"u", "n", "d", "e", "f", "i", "n", "e", "d">>
EntryText(e) == IF e.defined THEN e.v ELSE UndefinedText
EntryJoined(e) == IF e.defined THEN e.v ELSE <<>>

\* arr.join(sep) for an array of strings
RECURSIVE Join(_, _)
Join(arr, sep) ==
    IF arr = <<>> THEN <<>>
    ELSE IF Len(arr) = 1 THEN arr[1]
    ELSE arr[1] \o sep \o Join(Tail(arr), sep)

\* childJs[childJs.length - 1] += text
AppendToLast(childJs, text) ==
    IF childJs = <<>> THEN childJs
    ELSE [childJs EXCEPT ![Len(childJs)] =
             ValueString(EntryText(@) \o text)]

\* lastValue ends with "&&", "?", "(", ":" or " return"
EndsAsExpression(lastValue) ==
    \/ EndsWith(lastValue, <<"&", "&">>)
    \/ EndsWith(lastValue, <<"?">>)
    \/ EndsWith(lastValue, <<"(">>)
    \/ EndsWith(lastValue, <<":">>)
    \/ EndsWith(lastValue, <<" ", "r", "e", "t", "u", "r", "n">>)

\* the first scan of the children
ChildKinds(children) ==
    LET idx == 1..Len(children)
        isJs(c) == c.type \in {"e_child_js", "e_child_js_start"}
    IN  [hasChildJs |-> \E i \in idx : isJs(children[i]),
         hasChildText |-> \E i \in idx : children[i].type = "e_child_text",
         hasChildEl |-> \E i \in idx : children[i].type = "e_start",
         childElCount |-> Cardinality({i \in idx : children[i].type = "e_start"}),
         allChildJsContainsExpressions |->
             ~\E i \in idx :
                 /\ isJs(children[i])
                 /\ children[i].value.defined
                 /\ ~Contains(children[i].value.v, <<"(">>)
                 /\ ~Contains(children[i].value.v, <<")">>)]

\* a prop name that is written as it is
encodePropNamePlain(propName) == propName

\* propName after `if (propName.indexOf("-") !== -1)`
encodePropName(propName) ==
    IF Contains(propName, <<"-">>) THEN JSONstringify(propName) ELSE propName

RECURSIVE generateCode(_, _, _)
RECURSIVE generateProps(_, _, _, _, _)
RECURSIVE generateChildren(_, _, _, _)
RECURSIVE generateList(_, _)

\* value2 += generateCode(propValue.shift(), true) for every entry
generateList(list, createElement) ==
    IF list = <<>> THEN <<>>
    ELSE generateCode(Head(list), TRUE, createElement)
         \o generateList(Tail(list), createElement)

\* the entries of propJs for the props from n (1-based) on
generateProps(props, n, createElement, skipIndent, acc) ==
    IF n > Len(props) THEN acc
    ELSE
    LET pv == props[n].value
        propValue ==
            IF pv.kind = "null" THEN <<"t", "r", "u", "e">>
            ELSE IF pv.kind = "string" THEN pv.v
            ELSE IF pv.kind = "list" THEN generateList(pv.v, createElement)
            ELSE generateCode(pv.v, TRUE, createElement)
        trimmed == Trim(props[n].name)
        propName == encodePropName(trimmed)
        sep == IF n = Len(props) THEN <<>> ELSE <<",", " ">>
        item == IF propValue = <<"t", "r", "u", "e">> /\ TestSpread(propName)
                THEN SubSeq(propName, 2, Len(propName) - 1) \o sep
                ELSE propName \o <<":", " ">> \o propValue \o sep
    IN  generateProps(props, n + 1, createElement, skipIndent, Append(acc, item))

\* the second scan of the children from m (1-based) on; g carries childJs,
\* lastIndex (0 for null), childElCount, lastElAddedAsJs and startsWithJs
generateChildren(node, m, createElement, g) ==
    IF m > Len(node.children) THEN g
    ELSE
    LET child == node.children[m]
        childCount == Len(node.children)
        kinds == ChildKinds(node.children)
        next(g2) == generateChildren(node, m + 1, createElement,
                                     [g2 EXCEPT !.lastIndex = m])
    IN
    CASE child.type \in {"e_child_js", "e_child_js_start"} ->
            IF g.lastElAddedAsJs
            THEN next([g EXCEPT !.childJs = AppendToLast(@, EntryText(child.value))])
            ELSE next([g EXCEPT !.childJs = Append(@, child.value),
                                !.startsWithJs = @ \/ Len(g.childJs) = 0])
      [] child.type = "e_child_text" ->
            LET raw == child.value.v
                nodeValue == IF Contains(raw, <<"&">>) THEN HtmlDecode(raw) ELSE raw
                text == IF childCount = 1 THEN nodeValue
                        ELSE IF m = childCount THEN TrimEnd(nodeValue)
                        ELSE IF m = 1 THEN TrimStart(nodeValue)
                        ELSE nodeValue
            IN  next([g EXCEPT !.childJs = Append(@, ValueString(JSONstringify(text)))])
      [] child.type = "e_child_js_end" ->
            next([g EXCEPT !.childJs = Append(@, child.value)])
      [] child.type = "e_start" ->
            LET skipElIndent == /\ g.lastIndex # 0
                                /\ node.children[g.lastIndex].type = "e_child_js"
                code == generateCode(child.value, skipElIndent, createElement)
                asJs == /\ skipElIndent
                        /\ EndsAsExpression(Trim(node.children[g.lastIndex].value.v))
            IN  IF asJs
                THEN next([g EXCEPT !.childJs = AppendToLast(@, code),
                                    !.childElCount = @ - 1,
                                    !.lastElAddedAsJs = TRUE])
                ELSE next([g EXCEPT !.childJs = Append(@, ValueString(code)),
                                    !.lastElAddedAsJs = FALSE])
      [] OTHER ->
            \* e_child_whitespace: `continue` leaves lastIndex as it is
            generateChildren(node, m + 1, createElement,
                IF /\ (kinds.hasChildJs \/ kinds.hasChildText)
                   /\ ~(m = 1 \/ m = childCount)
                THEN [g EXCEPT !.childJs =
                                  Append(@, ValueString(JSONstringify(child.value.v))),
                               !.lastElAddedAsJs = FALSE]
                ELSE g)

generateCode(node, skipIndent, createElement) ==
    IF node.type \in {"js", "e_child_js_start", "e_child_js_end"}
    THEN node.value
    ELSE
    LET head == createElement \o <<"(">>
                \o (IF node.isClass THEN node.name ELSE JSONstringify(node.name))
                \o <<",", " ">>
        js0 == IF node.stackCount > 0
               THEN IF ~skipIndent
                    THEN <<"\n">> \o Spaces(8) \o Spaces(node.stackCount * 4) \o head
                    ELSE <<" ">> \o head
               ELSE head
        propJs == generateProps(node.props, 1, createElement, skipIndent, <<>>)
        propTextLen == Len(Join(propJs, <<>>))
        propIndent == <<"\n">> \o (IF ~skipIndent
                                   THEN Spaces(12) \o Spaces(node.stackCount * 4)
                                   ELSE <<>>)
        js1 == IF node.props = <<>> THEN js0 \o <<"n", "u", "l", "l">>
               ELSE js0 \o <<"{">>
                    \o (IF propTextLen > 80
                        THEN propIndent \o Join(propJs, propIndent)
                        ELSE Join(propJs, <<>>))
                    \o <<"}">>
        kinds == ChildKinds(node.children)
        g == generateChildren(node, 1, createElement,
                 [childJs |-> <<>>, lastIndex |-> 0,
                  childElCount |-> kinds.childElCount,
                  lastElAddedAsJs |-> FALSE, startsWithJs |-> FALSE])
        texts == [i \in 1..Len(g.childJs) |-> EntryJoined(g.childJs[i])]
        js2 == IF g.childJs = <<>> THEN js1
               ELSE IF /\ ~kinds.hasChildText
                       /\ kinds.hasChildJs
                       /\ kinds.hasChildEl
                       /\ g.startsWithJs
                       /\ g.childElCount = 1
                       /\ kinds.allChildJsContainsExpressions
               THEN js1 \o <<",", " ">> \o Join(texts, <<>>)
               ELSE js1 \o <<",", " ">> \o Join(texts, <<",", " ">>)
    IN  js2 \o <<")">>

\* node.body.map(generateCode).join("")
RECURSIVE generateBody(_, _)
generateBody(body, createElement) ==
    IF body = <<>> THEN <<>>
    ELSE generateCode(Head(body), FALSE, createElement)
         \o generateBody(Tail(body), createElement)

UseStrictDouble == <<"\"", "u", "s", "e", " ", "s", "t", "r", "i", "c", "t", "\"">>
UseStrictSingle == <<"'", "u", "s", "e", " ", "s", "t", "r", "i", "c", "t", "'">>
UseStrictPrefix == UseStrictDouble \o <<";", "\n">>

\* a condition that looks only at the option
addsUseStrictAlways(addUseStrict, js) == addUseStrict

\* the condition under which the program case adds the prefix
addsUseStrict(addUseStrict, js) ==
    /\ addUseStrict
    /\ ~Contains(js, UseStrictDouble)
    /\ ~Contains(js, UseStrictSingle)

\* a program case that never adds the prefix
generateProgramBare(js, addUseStrict) == js

\* the program case of generateCode
generateProgram(js, addUseStrict) ==
    IF addsUseStrict(addUseStrict, js) THEN UseStrictPrefix \o js ELSE js

\* the createElement that codeGenerator uses: the @jsx hint of the input, or
\* the pragma field
createElementName(inp, pragma) ==
    LET hint == Hint(inp, <<"j", "s", "x">>)
    IN  IF hint # <<>> THEN hint ELSE pragma

ReactCreateElement ==
    <<"R", "e", "a", "c", "t", ".", "c", "r", "e", "a", "t", "e",
      "E", "l", "e", "m", "e", "n", "t">>
ReactFragment ==
    <<"R", "e", "a", "c", "t", ".", "F", "r", "a", "g", "m", "e", "n", "t">>

(***************************************************************************)
(* compile: removeComments, tokenizer, parser, codeGenerator               *)
(***************************************************************************)

\* a parser step that stores the fragment hint in the compiler's pragmaFrag
parserRunStoresHint ==
    /\ pc = "parser"
    /\ LET r == parser(tokens, input, opts.maxRecursiveCalls, opts.pragmaFrag)
           hint == Hint(input, <<"j", "s", "x", "F", "r", "a", "g">>)
       IN  /\ ast' = r.ast
           /\ error' = r.err
           /\ opts' = [opts EXCEPT !.pragmaFrag =
                                      IF hint # <<>> THEN hint ELSE @]
           /\ pc' = IF r.err # "" THEN "error"
                    ELSE IF call = "compile" THEN "codeGenerator" ELSE "done"
    /\ UNCHANGED <<page, call, input, rc, newInput, tk, tokens, generatedJs,
                   output>>

parserRun ==
    /\ pc = "parser"
    /\ LET r == parser(tokens, input, opts.maxRecursiveCalls, opts.pragmaFrag)
       IN  /\ ast' = r.ast
           /\ error' = r.err
           /\ pc' = IF r.err # "" THEN "error"
                    ELSE IF call = "compile" THEN "codeGenerator" ELSE "done"
    /\ UNCHANGED <<page, call, input, opts, rc, newInput, tk, tokens, generatedJs,
                   output>>

codeGeneratorRun ==
    /\ pc = "codeGenerator"
    /\ LET js == generateBody(ast.body, createElementName(input, opts.pragma))
       IN  /\ generatedJs' = js
           /\ output' = generateProgram(js, opts.addUseStrict)
    /\ pc' = "done"
    /\ UNCHANGED <<page, call, input, opts, rc, newInput, tk, tokens, ast, error>>

(***************************************************************************)
(* Properties of removeComments                                            *)
(***************************************************************************)

\* C1: for every input s, removeComments(s) returns a string of exactly the
\* length of s.
C1_SameLength == pc = "done" => Len(newInput) = Len(input)

\* removeComments returned for an input in which it blanked a comment
C1_CommentBlanked ==
    /\ pc = "done"
    /\ Contains(input, <<"/", "*">>)
    /\ newInput # input

\* t occurs in s at the 0-based offset i
StartsAt(s, i, t) ==
    i >= 0 /\ i + Len(t) <= Len(s) /\ SubSeq(s, i + 1, i + Len(t)) = t

\* offset i lies in a line comment: after a // with no newline up to i
InLineComment(s, i) ==
    \E j \in 0..i : /\ StartsAt(s, j, <<"/", "/">>)
                    /\ \A k \in j..i : At(s, k) # "\n"

\* offset i lies in a block comment: from a /* up to the end of the first */
\* after it, or up to the end of the text when there is none
InBlockComment(s, i) ==
    \E j \in 0..i : /\ StartsAt(s, j, <<"/", "*">>)
                    /\ ~\E k \in (j + 2)..(i - 2) : StartsAt(s, k, <<"*", "/">>)

\* offset i is a brace of a JSX comment: a { directly before /* or a }
\* directly after */
IsCommentBrace(s, i) ==
    \/ At(s, i) = "{" /\ StartsAt(s, i + 1, <<"/", "*">>)
    \/ At(s, i) = "}" /\ StartsAt(s, i - 2, <<"*", "/">>)

InCommentRegion(s, i) ==
    InLineComment(s, i) \/ InBlockComment(s, i) \/ IsCommentBrace(s, i)

\* C2: removeComments(s)[i] is s[i] or a space, every newline of s is at the
\* same offset in the result, and a character outside every comment region
\* (line comment, block comment, JSX comment with its braces) is unchanged.
C2_OnlyCommentsBlanked ==
    pc = "done" =>
        /\ Len(newInput) = Len(input)
        /\ \A i \in 0..(Len(input) - 1) :
              /\ At(newInput, i) \in {At(input, i), " "}
              /\ At(input, i) = "\n" => At(newInput, i) = "\n"
              /\ ~InCommentRegion(input, i) => At(newInput, i) = At(input, i)

\* the part of C2 the code keeps: each character is kept or blanked, and a
\* newline is always kept
C2_KeptOrBlanked ==
    pc = "done" =>
        \A i \in 0..(Len(input) - 1) :
            /\ At(newInput, i) \in {At(input, i), " "}
            /\ At(input, i) = "\n" => At(newInput, i) = "\n"

(***************************************************************************)
(* Properties of compile                                                   *)
(***************************************************************************)

\* The lexical mode of every offset of s by the rules of JavaScript: "code",
\* a line or block comment, or a string literal ("dq", "sq", "tpl"), where a
\* backslash in a string escapes the character after it.  The opening quote
\* has the mode "code", the closing quote the mode of its string.
RECURSIVE LexModes(_, _, _, _)
LexModes(s, i, mode, acc) ==
    IF i >= Len(s) THEN acc
    ELSE
    LET c == At(s, i)
        one(m, next) == LexModes(s, i + 1, next, Append(acc, m))
        two(m, next) ==
            IF i + 1 >= Len(s) THEN Append(acc, m)
            ELSE LexModes(s, i + 2, next, acc \o <<m, m>>)
        quote == CASE mode = "dq" -> "\""
                   [] mode = "sq" -> "'"
                   [] OTHER -> Backtick
    IN  CASE mode = "code" ->
                IF StartsAt(s, i, <<"/", "/">>) THEN two("line", "line")
                ELSE IF StartsAt(s, i, <<"/", "*">>) THEN two("block", "block")
                ELSE IF c = "\"" THEN one("code", "dq")
                ELSE IF c = "'" THEN one("code", "sq")
                ELSE IF c = Backtick THEN one("code", "tpl")
                ELSE one("code", "code")
          [] mode = "line" ->
                IF c = "\n" THEN one("code", "code") ELSE one("line", "line")
          [] mode = "block" ->
                IF StartsAt(s, i, <<"*", "/">>) THEN two("block", "code")
                ELSE one("block", "block")
          [] OTHER ->
                IF c = "\\" THEN two(mode, mode)
                ELSE IF c = quote THEN one(mode, "code")
                ELSE one(mode, mode)

\* s contains no `<` outside string literals
NoLessThanOutsideStrings(s) ==
    LET modes == LexModes(s, 0, "code", <<>>)
    IN  \A i \in 1..Len(s) : s[i] = "<" => modes[i] \in {"dq", "sq", "tpl"}

\* compile returned t, or t preceded by the strict-mode prefix
Returned(t) == pc = "done" /\ output \in {t, UseStrictPrefix \o t}

Finished == pc \in {"done", "error"}

\* C3: for any input s that contains no `<` outside string literals,
\* compile(s) equals s, optionally preceded by the strict-mode prefix.
C3_PlainJsUnchanged ==
    (Finished /\ NoLessThanOutsideStrings(input)) => Returned(input)

\* C3 for the inputs that hold no comment: with no `/` in s there is nothing
\* for removeComments to blank
C3_PlainJsWithoutComments ==
    (Finished /\ NoLessThanOutsideStrings(input) /\ ~Contains(input, <<"/">>))
        => Returned(input)

\* C3 for the inputs that hold no backslash, with the blanking of comments
\* taken into account: compile(s) equals removeComments(s), optionally
\* preceded by the prefix
C3_PlainJsStripped ==
    (Finished /\ NoLessThanOutsideStrings(input) /\ ~Contains(input, <<"\\">>))
        => Returned(newInput)

\* C4: the code generator prepends the prefix if and only if addUseStrict is
\* set and the generated text contains neither "use strict" nor 'use strict';
\* otherwise the generated text is returned with no prefix.
C4_PrefixIffNeeded ==
    pc = "done" =>
        IF /\ opts.addUseStrict
           /\ ~Contains(generatedJs, UseStrictDouble)
           /\ ~Contains(generatedJs, UseStrictSingle)
        THEN output = UseStrictPrefix \o generatedJs
        ELSE output = generatedJs

\* the generator returned a program that already holds a single-quoted
\* directive, with addUseStrict on
C4_DirectivePresent ==
    /\ pc = "done"
    /\ opts.addUseStrict
    /\ Contains(generatedJs, UseStrictSingle)
    /\ ~Contains(generatedJs, UseStrictDouble)
    /\ output = generatedJs

\* C5: for any input s on which compile succeeds, compile(s) contains
\* "use strict" if and only if s contains it or addUseStrict is on.
C5_ContainsIffInputOrOption ==
    pc = "done" =>
        (Contains(output, UseStrictDouble)
            <=> (Contains(input, UseStrictDouble) \/ opts.addUseStrict))

\* C5 as the code has it: with addUseStrict on the result contains
\* "use strict" or 'use strict'; with it off the result is the generated
\* text, so it contains a directive only if the generated text does
C5_DirectiveIffGeneratedOrOption ==
    pc = "done" =>
        /\ (Contains(output, UseStrictDouble) \/ Contains(output, UseStrictSingle))
              <=> \/ opts.addUseStrict
                  \/ Contains(generatedJs, UseStrictDouble)
                  \/ Contains(generatedJs, UseStrictSingle)
        /\ ~opts.addUseStrict => output = generatedJs

\* compile returned with addUseStrict on and the prefix added in front of an
\* element
C5_PrefixAdded ==
    /\ pc = "done"
    /\ opts.addUseStrict
    /\ Len(tokens) > 1
    /\ output = UseStrictPrefix \o generatedJs

(***************************************************************************)
(* Well-formed JSX                                                         *)
(***************************************************************************)

\* The operators below read a text by the grammar of JSX.  An offset of -1
\* says that the text is not well formed.

Letter == Lower \cup Upper

IsElementStart(s, i) == At(s, i) = "<" /\ At(s, i + 1) \in Letter

\* the offset after the string literal that goes on at offset i and is closed
\* by the quote q
RECURSIVE SkipString(_, _, _)
SkipString(s, i, q) ==
    IF i >= Len(s) THEN -1
    ELSE IF At(s, i) = "\\" THEN SkipString(s, i + 2, q)
    ELSE IF At(s, i) = q THEN i + 1
    ELSE SkipString(s, i + 1, q)

RECURSIVE wfElement(_, _)
RECURSIVE wfAttributes(_, _, _)
RECURSIVE wfChildren(_, _)
RECURSIVE wfExpression(_, _)

\* the offset after the } that closes the expression container going on at i
wfExpression(s, i) ==
    LET c == At(s, i)
        then(j) == IF j = -1 THEN -1 ELSE wfExpression(s, j)
    IN  IF i >= Len(s) THEN -1
        ELSE IF c = "}" THEN i + 1
        ELSE IF c = "{" THEN then(wfExpression(s, i + 1))
        ELSE IF c \in {"\"", "'"} THEN then(SkipString(s, i + 1, c))
        ELSE IF IsElementStart(s, i) THEN then(wfElement(s, i))
        ELSE IF c = "<" THEN -1
        ELSE wfExpression(s, i + 1)

\* the attributes of a tag from offset i to the end of the tag; spaced says
\* that white space precedes offset i
wfAttributes(s, i, spaced) ==
    LET c == At(s, i)
        fail == [pos |-> -1, selfClosing |-> FALSE]
        j == i + Len(TakeWhile(Substring(s, i, Len(s)), Letter))
        v == IF At(s, j) # "=" THEN j
             ELSE IF At(s, j + 1) = "\"" THEN SkipString(s, j + 2, "\"")
             ELSE IF At(s, j + 1) = "{" THEN wfExpression(s, j + 2)
             ELSE -1
    IN  IF i >= Len(s) THEN fail
        ELSE IF c \in Whitespace THEN wfAttributes(s, i + 1, TRUE)
        ELSE IF c = ">" THEN [pos |-> i + 1, selfClosing |-> FALSE]
        ELSE IF c = "/" /\ At(s, i + 1) = ">"
        THEN [pos |-> i + 2, selfClosing |-> TRUE]
        ELSE IF c \in Letter /\ spaced
        THEN IF v = -1 THEN fail ELSE wfAttributes(s, v, FALSE)
        ELSE fail

\* the offset of the closing tag that ends the children going on at i
wfChildren(s, i) ==
    LET c == At(s, i)
        then(j) == IF j = -1 THEN -1 ELSE wfChildren(s, j)
    IN  IF i >= Len(s) THEN -1
        ELSE IF StartsAt(s, i, <<"<", "/">>) THEN i
        ELSE IF IsElementStart(s, i) THEN then(wfElement(s, i))
        ELSE IF c = "{" THEN then(wfExpression(s, i + 1))
        ELSE IF c \in {"<", ">", "}"} THEN -1
        ELSE wfChildren(s, i + 1)

\* the offset after the element that starts at i: a self-closing tag, or an
\* opening tag, children and the closing tag of the same name
wfElement(s, i) ==
    LET name == TakeWhile(Substring(s, i + 1, Len(s)), Letter)
        a == wfAttributes(s, i + 1 + Len(name), FALSE)
        close == <<"<", "/">> \o name \o <<">">>
        c == wfChildren(s, a.pos)
    IN  IF a.pos = -1 THEN -1
        ELSE IF a.selfClosing THEN a.pos
        ELSE IF c # -1 /\ StartsAt(s, c, close) THEN c + Len(close)
        ELSE -1

\* The plain JavaScript of s from offset i on, outside every element, when s
\* is well formed: every element is self-closing or closed by its closing
\* tag, every string ends, and the braces outside the elements balance.
\* depth counts the open braces; acc collects the text outside the elements.
RECURSIVE wfProgram(_, _, _, _)
wfProgram(s, i, depth, acc) ==
    LET c == At(s, i)
        e == wfElement(s, i)
        q == SkipString(s, i + 1, c)
        bad == [ok |-> FALSE, js |-> <<>>]
    IN  IF i >= Len(s) THEN [ok |-> depth = 0, js |-> acc]
        ELSE IF IsElementStart(s, i)
        THEN IF e = -1 THEN bad ELSE wfProgram(s, e, depth, acc)
        ELSE IF c = "<" THEN bad
        ELSE IF c \in {"\"", "'"}
        THEN IF q = -1 THEN bad
             ELSE wfProgram(s, q, depth, acc \o Substring(s, i, q))
        ELSE IF c = "{" THEN wfProgram(s, i + 1, depth + 1, Append(acc, c))
        ELSE IF c = "}"
        THEN IF depth = 0 THEN bad
             ELSE wfProgram(s, i + 1, depth - 1, Append(acc, c))
        ELSE wfProgram(s, i + 1, depth, Append(acc, c))

WellFormed(s) == wfProgram(s, 0, 0, <<>>).ok

\* the characters of a well-formed s that lie outside every element
OutsideElements(s) == wfProgram(s, 0, 0, <<>>).js

\* the number of offsets at which t occurs in s
Occurrences(s, t) == Cardinality({i \in 0..(Len(s) - 1) : StartsAt(s, i, t)})

(***************************************************************************)
(* Properties of tokenizer                                                 *)
(***************************************************************************)

TokensOfType(toks, type) == {i \in 1..Len(toks) : toks[i].type = type}

\* tokens from..to hold no more e_end than e_start tokens
Depth(toks, k) ==
    Cardinality({i \in TokensOfType(toks, "e_start") : i <= k})
        - Cardinality({i \in TokensOfType(toks, "e_end") : i <= k})

IsSelfClosingEnd(t) == t.type = "e_end" /\ t.value = <<"/", ">">>

\* C7: for every self-closing element the tokenizer emits both an e_start
\* and an e_end token, and that e_end token carries pos null.
C7_SelfClosingEndHasNullPos ==
    (pc = "done" /\ WellFormed(input)) =>
        /\ Cardinality({i \in 1..Len(tokens) : IsSelfClosingEnd(tokens[i])})
              = Occurrences(input, <<"/", ">">>)
        /\ \A i \in 1..Len(tokens) :
              IsSelfClosingEnd(tokens[i]) => tokens[i].pos = NullPos

\* C7 as the code has it: in the tokens returned for a well-formed input,
\* every self-closing element has an e_end token of value "/>" whose pos is
\* the offset of the > of the tag or the offset after it, and the tokens
\* before it, back to the e_start of the tag, are those of its attributes.
C7_SelfClosingEndHasOffset ==
    (pc = "done" /\ WellFormed(input)) =>
        /\ Cardinality({i \in 1..Len(tokens) : IsSelfClosingEnd(tokens[i])})
              = Occurrences(input, <<"/", ">">>)
        /\ \A i \in 1..Len(tokens) :
              IsSelfClosingEnd(tokens[i]) =>
                  /\ tokens[i].pos # NullPos
                  /\ \/ At(input, tokens[i].pos) = ">"
                     \/ At(input, tokens[i].pos - 1) = ">"
                  /\ \E j \in 1..(i - 1) :
                        /\ tokens[j].type = "e_start"
                        /\ ~Contains(tokens[j].value, <<">">>)
                        /\ \A k \in (j + 1)..(i - 1) :
                              tokens[k].type \in {"e_prop", "e_value"}

\* tokenizer returned the tokens of a self-closing element with an attribute
C7_SelfClosingWithAttribute ==
    /\ pc = "done"
    /\ WellFormed(input)
    /\ \E i \in 2..Len(tokens) :
          IsSelfClosingEnd(tokens[i]) /\ tokens[i - 1].type = "e_value"

\* some token has pos null
SomeNullPos == \E i \in 1..Len(tokens) : tokens[i].pos = NullPos

\* the values of the js tokens in their order
RECURSIVE JsText(_)
JsText(toks) ==
    IF toks = <<>> THEN <<>>
    ELSE (IF Head(toks).type = "js" THEN Head(toks).value ELSE <<>>)
         \o JsText(Tail(toks))

\* C8: the tokens cover the input without loss or duplication: every
\* character in plain JavaScript outside any element appears in exactly one
\* js token, in source order, the characters directly after the end of an
\* element included; each js token holds the text at its pos.
C8_JsCovered ==
    (pc = "done" /\ WellFormed(input)) =>
        /\ JsText(tokens) = OutsideElements(input)
        /\ \A i \in TokensOfType(tokens, "js") :
              StartsAt(input, tokens[i].pos, tokens[i].value)

\* C10: for well-formed input the loop counter never exceeds len(input), so
\* the endless-loop tripwire does not fire; an input that is one self-closing
\* element tokenizes to e_start, e_end without an error.
C10_NoTripwireOnWellFormed ==
    WellFormed(input) =>
        /\ tk.loopCount <= Len(input)
        /\ error # "Endless loop encountered in tokenizer"
        /\ (Finished /\ input = <<"<", "a", "/", ">">>) =>
              /\ pc = "done"
              /\ Len(tokens) = 2
              /\ tokens[1].type = "e_start"
              /\ tokens[2].type = "e_end"

\* C9: every iteration of the main loop, the element loop and the attribute
\* loop increments one shared counter, and the call throws `Endless loop
\* encountered in tokenizer` as soon as the counter exceeds len(input); every
\* tokenizeElement call increments a call counter and throws once it exceeds
\* maxRecursiveCalls.
C9_CountersBounded ==
    /\ tk.loopCount <= Len(tkInput) + 1
    /\ tk.loopCount > Len(tkInput)
          <=> error = "Endless loop encountered in tokenizer"
    /\ tk.callCount <= opts.maxRecursiveCalls + 1
    /\ tk.callCount > opts.maxRecursiveCalls
          <=> error = "Call count exceeded in tokenizer"
    /\ error # "" <=> pc = "error"

\* a step that runs an iteration of one of the three loops
LoopIteration ==
    /\ pc = "tokenizer"
    /\ tk.current < Len(tkInput)
    /\ tk.stack # <<>> => Top(tk).at \in {"outer", "inner"}

\* a step that enters tokenizeElement
EntersTokenizeElement ==
    \/ Len(tk'.stack) > Len(tk.stack)
    \/ error' = "Call count exceeded in tokenizer"

C9_CountersStep ==
    /\ LoopIteration => tk'.loopCount = tk.loopCount + 1
    /\ ~LoopIteration => tk'.loopCount = tk.loopCount
    /\ tk'.callCount = IF EntersTokenizeElement THEN tk.callCount + 1
                       ELSE tk.callCount

\* C9: tokenizer terminates on every input, with its counters as above
C9_Terminates ==
    /\ []C9_CountersBounded
    /\ [][C9_CountersStep]_vars
    /\ <>Finished

\* the tripwire of the loop counter fired
C9_TripwireFired ==
    /\ error = "Endless loop encountered in tokenizer"
    /\ tk.loopCount = Len(tkInput) + 1
    /\ tk.stack # <<>>

(***************************************************************************)
(* Properties of the call counters                                         *)
(***************************************************************************)

\* an element opens at offset i of s: <Name or <>
OpensAt(s, i) == IsElementStart(s, i) \/ StartsAt(s, i, <<"<", ">">>)

\* an element closes at offset i of s: a closing tag or the /> of a tag
ClosesAt(s, i) ==
    \/ StartsAt(s, i, <<"<", "/">>)
    \/ (StartsAt(s, i, <<"/", ">">>) /\ At(s, i - 1) # "<")

\* the number of elements open after the first k characters of s
OpenElements(s, k) ==
    Cardinality({i \in 0..(k - 1) : OpensAt(s, i)})
        - Cardinality({i \in 0..(k - 1) : ClosesAt(s, i)})

\* the deepest nesting of elements in s
NestingDepth(s) ==
    CHOOSE d \in 0..Len(s) :
        /\ \A k \in 0..Len(s) : OpenElements(s, k) <= d
        /\ \E k \in 0..Len(s) : OpenElements(s, k) = d

CallCountExceeded ==
    {"Call count exceeded in tokenizer", "Call count exceeded in parser"}

\* the tokens at which parser starts a walk call when it runs to its end: the
\* e_start tokens, the js tokens that are no attribute value, and the
\* e_child_js_start tokens that follow an attribute name
WalkTokens(toks) ==
    {i \in 1..Len(toks) :
        \/ toks[i].type = "e_start"
        \/ toks[i].type = "js" /\ (i = 1 \/ toks[i - 1].type # "e_prop")
        \/ toks[i].type = "e_child_js_start" /\ i > 1
              /\ toks[i - 1].type = "e_prop"}

MismatchError == "Found closing element that does not match opening element"
UnbalancedError ==
    "The number of opening elements does not match the number closing elements"

\* What is open after a run of tokens that parser accepts: the names of the
\* elements being built, innermost last, with the mark ListMark for a token
\* list that an e_child_js_start after an attribute name has begun.  ok is
\* FALSE once a token came that parser takes no further.
ListMark == <<"{", "}">>

RefStart == [ok |-> TRUE, open |-> <<>>, mismatch |-> FALSE]

RefStep(r, t, prev, pragmaFrag) ==
    LET top == r.open[Len(r.open)]
        pop == [r EXCEPT !.open = SubSeq(@, 1, Len(@) - 1)]
        push(x) == [r EXCEPT !.open = Append(@, x)]
        stop == [r EXCEPT !.ok = FALSE]
        name == IF TagName(t.value) = <<>> THEN pragmaFrag
                ELSE TagName(t.value)
    IN  IF ~r.ok THEN r
        ELSE IF t.type = "e_start" THEN push(name)
        ELSE IF r.open = <<>>
        THEN IF t.type = "js" THEN r ELSE stop
        ELSE IF top = ListMark
        THEN IF t.type = "e_child_js_end" THEN pop ELSE stop
        ELSE IF t.type = "e_end"
        THEN IF TagName(t.value) # <<>> /\ TagName(t.value) # top
             THEN [stop EXCEPT !.mismatch = TRUE]
             ELSE pop
        ELSE IF t.type \in {"e_value", "js"}
        THEN IF prev = "e_prop" THEN r ELSE stop
        ELSE IF t.type = "e_child_js_start" /\ prev = "e_prop"
        THEN push(ListMark)
        ELSE IF t.type \in {"e_prop", "e_child_text", "e_child_whitespace",
                            "e_child_js", "e_child_js_start",
                            "e_child_js_end"}
        THEN r
        ELSE stop

\* the state of RefStep after the first k tokens
RECURSIVE RefRun(_, _, _)
RefRun(toks, k, pragmaFrag) ==
    IF k = 0 THEN RefStart
    ELSE RefStep(RefRun(toks, k - 1, pragmaFrag), toks[k],
                 IF k = 1 THEN "" ELSE toks[k - 1].type, pragmaFrag)

RefEnd == RefRun(tokens, Len(tokens), opts.pragmaFrag)

ParserFinished == call = "parser" /\ Finished

\* C12: when the parser reaches an e_end token whose name is non-empty and
\* differs from the name of the element being built, parser throws the
\* mismatched-tag error and returns no AST; when the names are equal no such
\* error is thrown.
C12_MismatchThrows ==
    ParserFinished =>
        /\ error = MismatchError <=> RefEnd.mismatch
        /\ error = MismatchError => ast = <<>> /\ pc = "error"

\* parser met a closing tag of another name than the element it was building
C12_MismatchedClosingTag ==
    /\ ParserFinished
    /\ error = MismatchError
    /\ Len(tokens) >= 3
    /\ tokens[1].type = "e_start" /\ TagName(tokens[1].value) = <<"a">>
    /\ tokens[2].type = "e_child_text"
    /\ tokens[3].type = "e_end" /\ TagName(tokens[3].value) = <<"b">>

\* an element is being built when the tokens run out
ElementOpenAtEnd ==
    /\ RefEnd.ok
    /\ \E i \in 1..Len(RefEnd.open) : RefEnd.open[i] # ListMark

\* a token list of an attribute value is unfinished when the tokens run out
ListOpenAtEnd ==
    /\ RefEnd.ok
    /\ \E i \in 1..Len(RefEnd.open) : RefEnd.open[i] = ListMark

ReturnsOnlyBalanced ==
    error = ""
        => Cardinality(TokensOfType(tokens, "e_start"))
               = Cardinality(TokensOfType(tokens, "e_end"))

\* C13: parser returns an AST only if it consumed as many e_start as e_end
\* tokens; if an element is still open when the tokens run out, parser
\* throws the unbalanced-elements error instead of returning.
C13_OpenElementIsUnbalanced ==
    ParserFinished =>
        /\ ReturnsOnlyBalanced
        /\ ElementOpenAtEnd => error = UnbalancedError

\* C13 as the code has it: parser returns an AST only if it consumed as many
\* e_start as e_end tokens.  When the tokens run out while an element is
\* being built parser throws the unbalanced-elements error, unless they run
\* out inside the token list of an attribute value (after an
\* e_child_js_start that follows an attribute name): then it throws `Tokens
\* are out of order 2`.
C13_OpenElementThrows ==
    ParserFinished =>
        /\ ReturnsOnlyBalanced
        /\ (ElementOpenAtEnd /\ ~ListOpenAtEnd) => error = UnbalancedError
        /\ ListOpenAtEnd => error = "Tokens are out of order 2"
        /\ error = UnbalancedError => ElementOpenAtEnd /\ ~ListOpenAtEnd

\* the tokens ran out inside a nested element
C13_NestedElementOpen ==
    /\ ParserFinished
    /\ error = UnbalancedError
    /\ Len(RefEnd.open) = 2

\* the createElement nodes of the tree under a createElement node: the node,
\* its child elements, and the elements in its attribute values
RECURSIVE NodesOf(_)
NodesOf(node) ==
    LET ofChild(c) == IF c.type = "e_start" THEN NodesOf(c.value) ELSE {}
        ofItem(x) == IF x.type = "createElement" THEN NodesOf(x) ELSE {}
        ofProp(q) ==
            IF q.value.kind = "node" THEN ofItem(q.value.v)
            ELSE IF q.value.kind = "list"
            THEN UNION {ofItem(q.value.v[i]) : i \in 1..Len(q.value.v)}
            ELSE {}
    IN  {node}
        \cup UNION {ofChild(node.children[i]) : i \in 1..Len(node.children)}
        \cup UNION {ofProp(node.props[i]) : i \in 1..Len(node.props)}

\* the createElement nodes of the AST that parser returned
AstElements ==
    UNION {IF ast.body[i].type = "createElement" THEN NodesOf(ast.body[i])
           ELSE {} : i \in 1..Len(ast.body)}

Parsed == call = "compile" /\ pc \in {"codeGenerator", "done"}

\* the name begins with an uppercase ASCII letter or contains a dot
ClassLike(name) ==
    \/ name[1] \in Upper
    \/ \E i \in 1..Len(name) : name[i] = "."

\* the start of the call that the code generator writes for an element
CallOf(name, bare) ==
    createElementName(input, opts.pragma) \o <<"(">>
        \o (IF bare THEN name ELSE <<"\"">> \o name \o <<"\"">>)
        \o <<",", " ">>

\* C14: for every createElement node built by the parser, isClass is true
\* if and only if the element name begins with an uppercase ASCII letter or
\* contains a dot; the code generator emits the name bare when isClass is
\* true and as a JSON string literal otherwise.
C14_ClassNamesBare ==
    Parsed =>
        \A n \in AstElements :
            /\ n.isClass <=> ClassLike(n.name)
            /\ pc = "done" =>
                  /\ Contains(output, CallOf(n.name, n.isClass))
                  /\ ~Contains(output, CallOf(n.name, ~n.isClass))

\* compile returned the code of an element with a lowercase dotted name and
\* of another element
C14_DottedAndPlain ==
    /\ Parsed
    /\ pc = "done"
    /\ \E n \in AstElements : n.name = <<"a", ".", "b">>
    /\ \E n \in AstElements : ~n.isClass

\* The name given by the first hint `// @word Name` or `/* @word Name` of s,
\* or the default when s has no such hint; the hints are written with single
\* spaces.
HintOffsets(s, word) ==
    {i \in 0..(Len(s) - 1) :
        \/ StartsAt(s, i, <<"/", "/", " ", "@">> \o word \o <<" ">>)
        \/ StartsAt(s, i, <<"/", "*", " ", "@">> \o word \o <<" ">>)}

FirstHintName(s, word, default) ==
    IF HintOffsets(s, word) = {} THEN default
    ELSE LET i == CHOOSE j \in HintOffsets(s, word) :
                      \A k \in HintOffsets(s, word) : j <= k
         IN  TakeWhile(Substring(s, i + 5 + Len(word), Len(s)),
                       Letter \cup {"."})

JsxFragWord == <<"j", "s", "x", "F", "r", "a", "g">>
JsxWord == <<"j", "s", "x">>

\* every e_start token has its node in the AST, named by the tag, or by the
\* fragment pragma when the tag has no name
FragmentsNamed ==
    Parsed =>
        \A i \in TokensOfType(tokens, "e_start") :
            \E n \in AstElements :
                /\ n.pos = tokens[i].pos
                /\ n.name = IF TagName(tokens[i].value) = <<>>
                            THEN FirstHintName(input, JsxFragWord,
                                               opts.pragmaFrag)
                            ELSE TagName(tokens[i].value)

\* the calls in the output are calls of the function the @jsx hint names
PragmaUsed ==
    (Parsed /\ pc = "done") =>
        \A n \in AstElements :
            Contains(output,
                     FirstHintName(input, JsxWord, opts.pragma) \o <<"(">>
                         \o (IF n.isClass THEN n.name
                             ELSE <<"\"">> \o n.name \o <<"\"">>))

\* C15: an element with an empty name gets the fragment pragma as its name:
\* the name of the first @jsxFrag hint in the original input if there is one,
\* else the configured pragmaFrag.  The hints @jsx and @jsxFrag override the
\* defaults for that compile only: the compiler's pragma and pragmaFrag
\* fields have the same values after compile as before.
C15_FragmentPragma ==
    /\ [](FragmentsNamed /\ PragmaUsed)
    /\ [][opts' = opts]_vars

\* compile returned the code of a fragment for an input with two different
\* @jsxFrag hints
C15_TwoHints ==
    /\ Parsed
    /\ pc = "done"
    /\ Cardinality(HintOffsets(input, JsxFragWord)) = 2
    /\ \E n \in AstElements : n.name \in {<<"F">>, <<"G">>}
    /\ opts.pragmaFrag = ReactFragment

(***************************************************************************)
(* Inputs                                                                  *)
(***************************************************************************)

\* every concatenation of at most n pieces of P
RECURSIVE Texts(_, _)
Texts(P, n) ==
    IF n = 0 THEN {<<>>}
    ELSE LET prev == Texts(P, n - 1)
         IN  prev \cup {s \o p : s \in prev, p \in P}

MaxStripPieces == 4

StripPieces ==
    {<<"/">>, <<"*">>, <<"{">>, <<"}">>, <<"\n">>, <<"a">>, <<"\"">>,
     <<"\\">>, <<"<">>, <<">">>, <<"{", "/", "*">>, <<"*", "/">>}

DefaultOpts ==
    [pragma |-> ReactCreateElement, pragmaFrag |-> ReactFragment,
     maxRecursiveCalls |-> 1000, addUseStrict |-> TRUE]

InitStrip ==
    /\ call = "removeComments"
    /\ pc = "removeComments"
    /\ input \in Texts(StripPieces, MaxStripPieces)
    /\ opts = DefaultOpts
    /\ rc = rcInit(input)
    /\ newInput = <<>>
    /\ tk = tkInit
    /\ tokens = <<>>
    /\ ast = <<>>
    /\ generatedJs = <<>>
    /\ output = <<>>
    /\ error = ""
    /\ page = NoPage

NextStrip == removeCommentsLoop \/ removeCommentsReturn

SpecStrip == InitStrip /\ [][NextStrip]_vars

MaxTokPieces == 4

TokPieces ==
    {<<"<", "a">>, <<">">>, <<"/", ">">>, <<"<", "/", "a", ">">>, <<"x">>,
     <<" ">>, <<"{">>, <<"}">>, <<"=">>, <<"\"">>, <<";">>}

InitTok ==
    /\ call = "tokenizer"
    /\ pc = "tokenizer"
    /\ input \in Texts(TokPieces, MaxTokPieces)
    /\ opts \in {[DefaultOpts EXCEPT !.maxRecursiveCalls = n] : n \in {1, 1000}}
    /\ rc = rcIdle
    /\ newInput = <<>>
    /\ tk = tkInit
    /\ tokens = <<>>
    /\ ast = <<>>
    /\ generatedJs = <<>>
    /\ output = <<>>
    /\ error = ""
    /\ page = NoPage

NextTok ==
    \/ tokenizerLoop
    \/ tokenizerReturn
    \/ tokenizeElementLoop
    \/ attributeLoop
    \/ tokenizeElementEnd

SpecTok == InitTok /\ [][NextTok]_vars

MaxFairPieces == 3

\* tokenizer runs to its end: its loops are plain sequential code, so a step
\* that can be taken is taken
InitTokFair ==
    /\ call = "tokenizer"
    /\ pc = "tokenizer"
    /\ input \in Texts(TokPieces, MaxFairPieces)
    /\ opts \in {[DefaultOpts EXCEPT !.maxRecursiveCalls = n] : n \in {1, 1000}}
    /\ rc = rcIdle
    /\ newInput = <<>>
    /\ tk = tkInit
    /\ tokens = <<>>
    /\ ast = <<>>
    /\ generatedJs = <<>>
    /\ output = <<>>
    /\ error = ""
    /\ page = NoPage

SpecTokFair == InitTokFair /\ [][NextTok]_vars /\ WF_vars(NextTok)

MaxJsxPieces == 4

JsxPieces ==
    {<<"<", "a", ">">>, <<"<", "/", "a", ">">>, <<"<", "a", "/", ">">>,
     <<"<", "a", " ", "/", ">">>, <<"<", "a", " ", "b", "=", "\"", "c", "\"", "/", ">">>,
     <<"<", "a", " ", "b", "/", ">">>, <<"x">>, <<" ">>, <<"{">>, <<"}">>,
     <<";">>}

InitJsx ==
    /\ call = "tokenizer"
    /\ pc = "tokenizer"
    /\ input \in Texts(JsxPieces, MaxJsxPieces)
    /\ opts = DefaultOpts
    /\ rc = rcIdle
    /\ newInput = <<>>
    /\ tk = tkInit
    /\ tokens = <<>>
    /\ ast = <<>>
    /\ generatedJs = <<>>
    /\ output = <<>>
    /\ error = ""
    /\ page = NoPage

SpecJsx == InitJsx /\ [][NextTok]_vars

MaxCompilePieces == 3

CompilePieces ==
    {UseStrictDouble, UseStrictSingle, <<"/", "/">>, <<"\n">>, <<"/", "*">>,
     <<"*", "/">>, <<"<", "a">>, <<">">>, <<"/", ">">>, <<"<", "/", "a", ">">>,
     <<"x">>, <<" ">>, <<"{">>, <<"}">>, <<" ", "b", "=">>, <<"\"">>,
     <<"\"", "\\", "\\", "\"">>, <<"\"", "<", "a", "/", ">", "\"">>}

Init ==
    /\ call = "compile"
    /\ pc = "removeComments"
    /\ input \in Texts(CompilePieces, MaxCompilePieces)
    /\ opts \in {[DefaultOpts EXCEPT !.addUseStrict = b] : b \in BOOLEAN}
    /\ rc = rcInit(input)
    /\ newInput = <<>>
    /\ tk = tkInit
    /\ tokens = <<>>
    /\ ast = <<>>
    /\ generatedJs = <<>>
    /\ output = <<>>
    /\ error = ""
    /\ page = NoPage

Next ==
    \/ removeCommentsLoop
    \/ removeCommentsReturn
    \/ tokenizerLoop
    \/ tokenizerReturn
    \/ tokenizeElementLoop
    \/ attributeLoop
    \/ tokenizeElementEnd
    \/ parserRun
    \/ codeGeneratorRun

Spec == Init /\ [][Next]_vars

MaxElementPieces == 3

ElementPieces ==
    {<<"x">>, <<" ">>, <<"{">>, <<"}">>,
     <<"<", "a", ">">>, <<"<", "/", "a", ">">>, <<"<", "a", " ", "/", ">">>,
     <<"<", "A", " ", "/", ">">>, <<"<", "a", ".", "b", " ", "/", ">">>,
     <<"<", ">">>, <<"<", "/", ">">>,
     <<"<", "a", " ", "b", ">">>, <<"<", "a", " ", "b", " ", "/", ">">>,
     <<"<", "a", " ", "b", "/", ">">>,
     <<"/", "/", " ", "@", "j", "s", "x", "F", "r", "a", "g", " ", "F", "\n">>,
     <<"/", "/", " ", "@", "j", "s", "x", " ", "h", "\n">>,
     <<"/", "*", " ", "@", "j", "s", "x", "F", "r", "a", "g", " ", "G", " ",
       "*", "/">>,
     <<"<", ">", "<", "/", ">">>}

\* compile on texts with elements, with a small and with the default limit
\* on the number of calls
InitElements ==
    /\ call = "compile"
    /\ pc = "removeComments"
    /\ input \in Texts(ElementPieces, MaxElementPieces)
    /\ opts \in {[DefaultOpts EXCEPT !.maxRecursiveCalls = n] : n \in {2, 1000}}
    /\ rc = rcInit(input)
    /\ newInput = <<>>
    /\ tk = tkInit
    /\ tokens = <<>>
    /\ ast = <<>>
    /\ generatedJs = <<>>
    /\ output = <<>>
    /\ error = ""
    /\ page = NoPage

SpecElements == InitElements /\ [][Next]_vars

MaxParserTokens == 4

\* the token sequences parser is given: each token with its index as pos
ParserTokenKinds ==
    {[type |-> "js", value |-> <<"x">>],
     [type |-> "e_start", value |-> <<"<", "a", ">">>],
     [type |-> "e_start", value |-> <<"<", "b">>],
     [type |-> "e_start", value |-> <<"<", ">">>],
     [type |-> "e_end", value |-> <<"<", "/", "a", ">">>],
     [type |-> "e_end", value |-> <<"<", "/", "b", ">">>],
     [type |-> "e_end", value |-> <<"<", "/", ">">>],
     [type |-> "e_end", value |-> <<"/", ">">>],
     [type |-> "e_prop", value |-> <<"p">>],
     [type |-> "e_value", value |-> <<"v">>],
     [type |-> "e_child_text", value |-> <<"t">>],
     [type |-> "e_child_js", value |-> <<"{", "y", "}">>],
     [type |-> "e_child_js_start", value |-> <<"(">>],
     [type |-> "e_child_js_end", value |-> <<")">>]}

ParserTokens ==
    UNION {[1..n -> ParserTokenKinds] : n \in 0..MaxParserTokens}

InitParser ==
    /\ call = "parser"
    /\ pc = "parser"
    /\ input = <<>>
    /\ opts = DefaultOpts
    /\ rc = rcIdle
    /\ newInput = <<>>
    /\ tk = tkInit
    /\ \E ts \in ParserTokens :
          tokens = [i \in 1..Len(ts) |->
                       Token(ts[i].type, ts[i].value, i - 1)]
    /\ ast = <<>>
    /\ generatedJs = <<>>
    /\ output = <<>>
    /\ error = ""
    /\ page = NoPage

NextParser == parserRun

SpecParser == InitParser /\ [][NextParser]_vars

(***************************************************************************)
(* loadScript and addToPage: the scripts of a page, compiled one by one    *)
(***************************************************************************)

MaxScripts == 3
MaxScriptPieces == 2

ScriptPieces ==
    {<<"x">>, <<"=", ">", ",">>, <<"<", "a", ">">>, <<"<", "/", "a", ">">>,
     <<"<", "a", " ", "b", "/", ">">>}

\* an attribute that is not set
NoAttribute == <<>>

\* a <script type="text/babel"> element with inline text.  compiled is not
\* part of the document: it records what compile returned or threw for the
\* element's text.
ScriptElement(text) ==
    [innerHTML |-> text, dataError |-> NoAttribute, addedToPage |-> FALSE,
     compiled |-> [output |-> <<>>, error |-> ""]]

\* e.toString(): the name of the error and its message
ErrorToString(err) ==
    <<IF err = "TypeError" THEN "TypeError" ELSE "Error", err>>

\* s.replace(find, replace) for a find pattern with the g flag
RECURSIVE ReplaceAll(_, _, _)
ReplaceAll(s, find, replace) ==
    IF s = <<>> THEN <<>>
    ELSE IF StartsAt(s, 0, find)
    THEN replace \o ReplaceAll(SubSeq(s, Len(find) + 1, Len(s)), find, replace)
    ELSE <<Head(s)>> \o ReplaceAll(Tail(s), find, replace)

jsUpdates == <<[find |-> <<"=", ">", ",">>, replace |-> <<"=", ">">>]>>

RECURSIVE applyJsUpdates(_, _)
applyJsUpdates(js, items) ==
    IF items = <<>> THEN js
    ELSE applyJsUpdates(ReplaceAll(js, Head(items).find, Head(items).replace),
                        Tail(items))

\* locals that keep the tokens of the call before
compileLocalsKeepTokens(text) ==
    [rc |-> rcInit(text), newInput |-> <<>>, tk |-> tkInit,
     tokens |-> tokens, ast |-> <<>>, generatedJs |-> <<>>, output |-> <<>>,
     error |-> ""]

\* the locals of a compile call and of the functions it calls, as they are
\* declared at the call
compileLocals(text) ==
    [rc |-> rcInit(text), newInput |-> <<>>, tk |-> tkInit, tokens |-> <<>>,
     ast |-> <<>>, generatedJs |-> <<>>, output |-> <<>>, error |-> ""]

\* an addToPage without the catch block's work: no data-error, and a script
\* is added as if compile had returned an empty text
compileFailedQuiet(p, i, err) ==
    [p EXCEPT !.elements[i].addedToPage = TRUE,
              !.elements[i].compiled = [output |-> <<>>, error |-> err],
              !.scripts = Append(@, [from |-> i, dataCompiler |-> "jsxLoader",
                                     innerHTML |-> <<>>]),
              !.callbacks = @ + 1]

\* addToPage after compile threw: data-error on the element, js = null,
\* callback() and return; then data-added-to-page on the element
compileFailed(p, i, err) ==
    [p EXCEPT !.elements[i].dataError = ErrorToString(err),
              !.elements[i].addedToPage = TRUE,
              !.elements[i].compiled = [output |-> <<>>, error |-> err],
              !.callbacks = @ + 1]

\* addToPage after compile returned js: the jsUpdates, a new <script> with
\* the code appended to the head, callback(); then data-added-to-page.  from
\* names the element the script was made for.
scriptAdded(p, i, js) ==
    [p EXCEPT !.elements[i].addedToPage = TRUE,
              !.elements[i].compiled = [output |-> js, error |-> ""],
              !.scripts = Append(@, [from |-> i, dataCompiler |-> "jsxLoader",
                                     innerHTML |-> applyJsUpdates(js, jsUpdates)]),
              !.callbacks = @ + 1]

\* loadScript(element) for the next inline script of the page, up to the
\* call of compile in addToPage (isSupportedBrowser is true)
loadScript ==
    /\ pc \in {"setup", "added"}
    /\ Len(page.elements) < MaxScripts
    /\ \E text \in Texts(ScriptPieces, MaxScriptPieces) :
          LET l == compileLocals(text) IN
          /\ page' = [page EXCEPT !.elements = Append(@, ScriptElement(text))]
          /\ input' = text
          /\ rc' = l.rc
          /\ newInput' = l.newInput
          /\ tk' = l.tk
          /\ tokens' = l.tokens
          /\ ast' = l.ast
          /\ generatedJs' = l.generatedJs
          /\ output' = l.output
          /\ error' = l.error
    /\ pc' = "removeComments"
    /\ UNCHANGED <<call, opts>>

\* the rest of addToPage and of loadScript, after compile returned or threw
addToPageReturn ==
    /\ pc \in {"done", "error"}
    /\ page.elements # <<>>
    /\ page' = IF pc = "error"
               THEN compileFailed(page, Len(page.elements), error)
               ELSE scriptAdded(page, Len(page.elements), output)
    /\ pc' = "added"
    /\ UNCHANGED <<call, input, opts, rc, newInput, tk, tokens, ast,
                   generatedJs, output, error>>

InitPage ==
    /\ call = "compile"
    /\ pc = "setup"
    /\ input = <<>>
    /\ opts = DefaultOpts
    /\ rc = rcIdle
    /\ newInput = <<>>
    /\ tk = tkInit
    /\ tokens = <<>>
    /\ ast = <<>>
    /\ generatedJs = <<>>
    /\ output = <<>>
    /\ error = ""
    /\ page = NoPage

NextPage == Next \/ loadScript \/ addToPageReturn

SpecPage == InitPage /\ [][NextPage]_vars

\* the elements whose loadScript call has ended
Loaded == {i \in 1..Len(page.elements) : page.elements[i].addedToPage}

\* C16: compile keeps no state between calls: compiling the same input twice
\* with the same configuration gives the same result (same output string or
\* same error), whatever other inputs were compiled in between.
C16_SameInputSameResult ==
    \A i, j \in Loaded :
        page.elements[i].innerHTML = page.elements[j].innerHTML
            => page.elements[i].compiled = page.elements[j].compiled

\* a text was compiled to code, then another text, then the first text again
C16_CompiledAgain ==
    /\ Loaded = 1..3
    /\ page.elements[1].innerHTML = page.elements[3].innerHTML
    /\ page.elements[1].innerHTML # page.elements[2].innerHTML
    /\ page.elements[1].compiled.output # <<>>
    /\ page.elements[2].compiled.error # ""

\* the scripts appended to the head for element i
ScriptsFrom(i) == SelectSeq(page.scripts, LAMBDA sc : sc.from = i)

\* what addToPage left in the document for each loaded element
ErrorsReported ==
    /\ page.callbacks = Cardinality(Loaded)
    /\ \A i \in Loaded :
          LET e == page.elements[i] IN
          IF e.compiled.error # ""
          THEN /\ e.dataError = ErrorToString(e.compiled.error)
               /\ ScriptsFrom(i) = <<>>
          ELSE /\ e.dataError = NoAttribute
               /\ Len(ScriptsFrom(i)) = 1

\* a step in which compile throws leaves no output, and the step of
\* addToPage after it sets data-error, calls back and adds no script
ErrorStep ==
    /\ (pc # "error" /\ pc' = "error")
          => /\ error' # ""
             /\ output' = <<>>
    /\ (pc = "error" /\ pc' # "error")
          => /\ pc' = "added"
             /\ page'.scripts = page.scripts
             /\ page'.callbacks = page.callbacks + 1
             /\ page'.elements[Len(page.elements)].dataError
                    = ErrorToString(error)

\* C17: every error raised in any stage aborts compile with an exception and
\* no output string is returned; in the harness a compile error sets
\* data-error on the source element, invokes the completion callback, and
\* appends no generated <script> element to the page.
C17_ErrorsAbort ==
    /\ [](pc = "error" => error # "" /\ output = <<>> /\ ~ENABLED Next)
    /\ []ErrorsReported
    /\ [][ErrorStep]_vars

\* a script whose compile threw in the tokenizer and one whose compile threw
\* in the parser were loaded, and a third was added to the page
C17_BothStagesFailed ==
    /\ Loaded = 1..3
    /\ page.elements[1].compiled.error
           = "Unhandled character in element properties"
    /\ page.elements[2].compiled.error = UnbalancedError
    /\ Len(page.scripts) = 1

(***************************************************************************)
(* Less-than signs in JavaScript and in expressions of elements            *)
(***************************************************************************)

MaxLessPieces == 4

LessPieces ==
    {<<"x">>, <<"<", " ">>, <<"<", "\n">>, <<"<", "\t">>, <<"<", "\r">>,
     <<"<", "a", " ", "b", "=", "{">>, <<"}", " ", "/", ">">>,
     <<"<", "a", ">", "{">>, <<"}", "<", "/", "a", ">">>,
     <<"a", "<", "b", "?", "c", ":", "d">>}

InitLess ==
    /\ call = "tokenizer"
    /\ pc = "tokenizer"
    /\ input \in Texts(LessPieces, MaxLessPieces)
    /\ opts = DefaultOpts
    /\ rc = rcIdle
    /\ newInput = <<>>
    /\ tk = tkInit
    /\ tokens = <<>>
    /\ ast = <<>>
    /\ generatedJs = <<>>
    /\ output = <<>>
    /\ error = ""
    /\ page = NoPage

SpecLess == InitLess /\ [][NextTok]_vars

\* the offsets of s where a < is not followed by white space or by /
LessNotSpaced(s) ==
    {i \in 0..(Len(s) - 1) :
        At(s, i) = "<" /\ At(s, i + 1) \notin Whitespace \cup {"/"}}

\* C18: a < followed by a whitespace character (space, tab, newline,
\* carriage return) is never tokenized as an element start, in any lexer
\* context: no more elements are started than the input has < signs that
\* are followed by something else.
C18_SpacedLessIsNoElement ==
    Cardinality(TokensOfType(tokens, "e_start"))
        <= Cardinality(LessNotSpaced(input))

\* the offsets of s where a < is followed by an ASCII letter or by > and
\* isExpression returns false
ElementStarts(s) ==
    {i \in 0..(Len(s) - 1) :
        /\ At(s, i) = "<"
        /\ At(s, i + 1) \in Letter \cup {">"}
        /\ ~isExpression(s, i, Len(s))}

\* C19: an element is started only when the < is followed by an ASCII letter
\* or > and isExpression returns false, so `a<b?c:d` is left as JavaScript
\* at top level, inside a child expression and inside an attribute
\* expression: no more elements are started than the input has such < signs.
C19_OnlyElementStarts ==
    Cardinality(TokensOfType(tokens, "e_start"))
        <= Cardinality(ElementStarts(input))

(***************************************************************************)
(* Attributes written without a value                                      *)
(***************************************************************************)

\* the ways to write element a with the attribute b and no value: the name
\* followed by white space, by > and directly by />
BareAttributeElements ==
    {<<"<", "a", " ", "b", " ", "/", ">">>,
     <<"<", "a", " ", "b", ">", "<", "/", "a", ">">>,
     <<"<", "a", " ", "b", "/", ">">>}

\* the e_prop tokens of toks that no e_value token follows
PropsWithoutValue(toks) ==
    {i \in TokensOfType(toks, "e_prop") :
        i = Len(toks) \/ toks[i + 1].type # "e_value"}

\* C20: an attribute written without a value yields an e_prop token that no
\* e_value token follows and is compiled to `key: true`, whether the name is
\* followed by white space, by > or directly by />.
C20_BareAttributeIsTrue ==
    \A el \in BareAttributeElements :
        (input = <<"x">> \o el /\ pc \in {"done", "error"})
            => /\ error = ""
               /\ PropsWithoutValue(tokens) # {}
               /\ Contains(output, <<"{", "b", ":", " ", "t", "r", "u", "e", "}">>)

(***************************************************************************)
(* compile on one element with attributes and children                     *)
(***************************************************************************)

MaxAttributes == 2
MaxChildren == 1

\* the JavaScript before and after the element
Js(prefix, suffix) == [before |-> prefix, after |-> suffix]

Surroundings ==
    {Js(<<>>, <<>>), Js(<<"c", "o", "n", "s", "t", " ", "x", " ", "=", " ">>, <<";">>)}

TagNames == {<<"d", "i", "v">>, <<"u", "l">>, <<"F", "o", "o">>}

AttributePieces ==
    {<<" ", "i", "d", "=", "\"", "a", "\"">>,
     <<" ", "d", "a", "t", "a", "-", "x", "=", "\"", "1", "\"">>,
     <<" ", "b">>,
     <<" ", "{", ".", ".", ".", "p", "}">>}

\* child expressions that hold an element: the JavaScript before it, the
\* element and the JavaScript after it
NestedExpressions ==
    {[before |-> <<"i", "t", "e", "m", "s", ".", "m", "a", "p", "(", "i", " ", "=", ">", " ">>,
      element |-> <<"<", "l", "i", " ", "k", "e", "y", "=", "{", "i", "}", ">", "{", "i", "}", "<", "/", "l", "i", ">">>,
      after |-> <<")">>],
     [before |-> <<"x", " ", "|", "|", " ">>,
      element |-> <<"<", "l", "i", " ", "/", ">">>,
      after |-> <<>>]}

ChildExpression(e) == <<"{">> \o e.before \o e.element \o e.after \o <<"}">>

ChildPieces ==
    {<<"h", "i">>, <<"{", "i", "}">>}
        \cup {ChildExpression(e) : e \in NestedExpressions}

OpeningTag(name, attributes) == <<"<">> \o name \o attributes \o <<">">>

ClosingTag(name) == <<"<", "/">> \o name \o <<">">>

ElementText(name, attributes, children) ==
    OpeningTag(name, attributes) \o children \o ClosingTag(name)

InitCalls ==
    /\ call = "compile"
    /\ pc = "removeComments"
    /\ input \in {js.before \o ElementText(name, attributes, children) \o js.after :
                      js \in Surroundings, name \in TagNames,
                      attributes \in Texts(AttributePieces, MaxAttributes),
                      children \in Texts(ChildPieces, MaxChildren)}
    /\ opts = DefaultOpts
    /\ rc = rcInit(input)
    /\ newInput = <<>>
    /\ tk = tkInit
    /\ tokens = <<>>
    /\ ast = <<>>
    /\ generatedJs = <<>>
    /\ output = <<>>
    /\ error = ""
    /\ page = NoPage

SpecCalls == InitCalls /\ [][Next]_vars

\* the quoted attribute and the text child of the example
IdA == <<" ", "i", "d", "=", "\"", "a", "\"">>
Hi == <<"h", "i">>

\* the call written for element `name` with the attribute id="a" and the
\* text child hi
CallWithIdAndText(name) ==
    <<"R", "e", "a", "c", "t", ".", "c", "r", "e", "a", "t", "e", "E", "l", "e", "m", "e", "n", "t", "(", "\"">> \o name
        \o <<"\"", ",", " ", "{", "i", "d", ":", " ", "\"", "a", "\"", "}", ",", " ", "\"", "h", "i", "\"", ")">>

\* C21: with the default configuration, compile of
\* `const x = <div id="a">hi</div>;` returns output that contains
\* `React.createElement("div", {id: "a"}, "hi")`: a lowercase tag becomes a
\* JSON string name, a quoted attribute a JSON string value and a single text
\* child a JSON string argument (also for the tag ul and without the
\* surrounding JavaScript).
C21_DivWithIdAndText ==
    \A js \in Surroundings, name \in TagNames :
        (/\ name[1] \in Lower
         /\ input = js.before \o ElementText(name, IdA, Hi) \o js.after
         /\ pc \in {"done", "error"})
            => /\ error = ""
               /\ Contains(output, CallWithIdAndText(name))
               /\ output = UseStrictPrefix \o js.before
                              \o CallWithIdAndText(name) \o js.after

\* compile returned the code of `const x = <div id="a">hi</div>;`
C21_ExampleCompiled ==
    /\ input = <<"c", "o", "n", "s", "t", " ", "x", " ", "=", " ", "<", "d", "i", "v", " ", "i", "d", "=", "\"", "a", "\"", ">", "h", "i", "<", "/", "d", "i", "v", ">", ";">>
    /\ pc = "done"
    /\ output # <<>>

\* the text s without its white space
WithoutWhitespace(s) == SelectSeq(s, LAMBDA c : c \notin Whitespace)

\* the call that stands for the element of a nested expression
NestedCall(element) ==
    IF element = <<"<", "l", "i", " ", "/", ">">>
    THEN <<"R", "e", "a", "c", "t", ".", "c", "r", "e", "a", "t", "e", "E", "l", "e", "m", "e", "n", "t", "(", "\"", "l", "i", "\"", ",", " ", "n", "u", "l", "l", ")">>
    ELSE <<"R", "e", "a", "c", "t", ".", "c", "r", "e", "a", "t", "e", "E", "l", "e", "m", "e", "n", "t", "(", "\"", "l", "i", "\"", ",", " ", "{", "k", "e", "y", ":", " ", "i", "}", ",", " ", "i", ")">>

\* the name of an element as the first argument of its call
NameArgument(name) ==
    IF ClassLike(name) THEN name ELSE <<"\"">> \o name \o <<"\"">>

\* the single call for element `name` without attributes whose only child is
\* the expression e, the element of e replaced by its call
CallAroundExpression(name, e) ==
    <<"R", "e", "a", "c", "t", ".", "c", "r", "e", "a", "t", "e", "E", "l", "e", "m", "e", "n", "t", "(">> \o NameArgument(name)
        \o <<",", " ", "n", "u", "l", "l", ",", " ">>
        \o e.before \o NestedCall(e.element) \o e.after \o <<")">>

\* C22: with the default configuration, compile of
\* `<ul>{items.map(i => <li key={i}>{i}</li>)}</ul>` returns output that, up
\* to white space, is the single call `React.createElement("ul", null,
\* items.map(i => React.createElement("li", {key: i}, i)))`: the JavaScript
\* before and after an element nested in a child expression is joined to the
\* element with no comma inserted.
C22_NestedElementJoined ==
    \A js \in Surroundings, name \in TagNames, e \in NestedExpressions :
        (/\ input = js.before \o ElementText(name, <<>>, ChildExpression(e))
                        \o js.after
         /\ pc \in {"done", "error"})
            => /\ error = ""
               /\ WithoutWhitespace(output)
                     = WithoutWhitespace(UseStrictPrefix \o js.before
                           \o CallAroundExpression(name, e) \o js.after)

\* the name of a prop in the props object: in quotes when it holds a `-`
PropKey(name) ==
    IF \E i \in 1..Len(name) : name[i] = "-"
    THEN <<"\"">> \o name \o <<"\"">>
    ELSE name

\* the prop is named `{...X}` and has no value
IsSpread(p) ==
    LET name == Trim(p.name)
    IN  /\ p.value = PropNull
        /\ Len(name) > 5
        /\ SubSeq(name, 1, 4) = <<"{", ".", ".", ".">>
        /\ name[Len(name)] = "}"

\* what the props object holds for a prop whose value is null or text (the
\* name of a prop is the text of its token, white space around it included)
PropEntry(p) ==
    IF IsSpread(p) THEN SubSeq(Trim(p.name), 2, Len(Trim(p.name)) - 1)
    ELSE PropKey(Trim(p.name)) \o <<":", " ">>
            \o (IF p.value = PropNull THEN <<"t", "r", "u", "e">> ELSE p.value.v)

RECURSIVE PropEntries(_)
PropEntries(props) ==
    IF Len(props) = 1 THEN PropEntry(props[1])
    ELSE PropEntry(props[1]) \o <<",", " ">> \o PropEntries(Tail(props))

\* the props argument of the call of an element
PropsArgument(props) ==
    IF props = <<>> THEN <<"n", "u", "l", "l">>
    ELSE <<"{">> \o PropEntries(props) \o <<"}">>

\* every prop of the element has a null or a text value
PlainProps(n) ==
    \A i \in 1..Len(n.props) : n.props[i].value.kind \in {"null", "string"}

MaxPageScripts == 3

\* the texts of the inline scripts and of the downloaded ones
PageTexts ==
    {<<"<", "a", " ", "/", ">">>, <<"<", "a", " ", "b", "/", ">">>}

\* element.src of a script with a src attribute
Url == <<"u">>

\* a <script type="text/babel"> element; promise is the state of the promise
\* that loadScript returned for it ("none" before the call)
PageElement(src, text) ==
    [src |-> src, innerHTML |-> text, dataError |-> NoAttribute,
     addedToPage |-> FALSE, compiled |-> [output |-> <<>>, error |-> ""],
     promise |-> "none"]

PageElements ==
    {PageElement(<<>>, text) : text \in PageTexts} \cup {PageElement(Url, <<>>)}

\* the ways a fetch settles: a response with a success status and a text, a
\* response with another status, or a rejection
FetchOutcomes ==
    {[kind |-> "text", text |-> text] : text \in PageTexts}
        \cup {[kind |-> "status", text |-> <<>>],
              [kind |-> "rejected", text |-> <<>>]}

FetchNone == [kind |-> "none", text |-> <<>>]
FetchPending == [kind |-> "pending", text |-> <<>>]

\* error.toString() of what the catch of a download receives
downloadErrorToString(outcome) ==
    IF outcome.kind = "status"
    THEN <<"Error", "Error loading data. Server Response Code">>
    ELSE <<"TypeError", "Failed to fetch">>

\* querySelectorAll('script[type="text/babel"]:not([data-added-to-page])')
pendingScripts(p) == {i \in 1..Len(p.elements) : ~p.elements[i].addedToPage}

hasPendingScripts == pendingScripts(page) # {}

\* a loading order that follows the page
loadOrderOfPage(p) == [i \in 1..Len(p.elements) |-> i]

\* a setup that loads scriptsNoSrc before the results of the downloads
loadOrderInlineFirst(p) ==
    LET indexes == [i \in 1..Len(p.elements) |-> i]
    IN  SelectSeq(indexes, LAMBDA i : p.elements[i].src = <<>>)
            \o SelectSeq(indexes, LAMBDA i : p.elements[i].src # <<>>)

\* the order of the loadScript calls after Promise.all: the results of the
\* downloads, then scriptsNoSrc
loadOrder(p) ==
    LET indexes == [i \in 1..Len(p.elements) |-> i]
    IN  SelectSeq(indexes, LAMBDA i : p.elements[i].src # <<>>)
            \o SelectSeq(indexes, LAMBDA i : p.elements[i].src = <<>>)

\* the new Promise of loadScript for element i
promiseCreated(p, i) == [p EXCEPT !.elements[i].promise = "pending"]

\* addToPage(text, resolve, src) up to the call of compile
addToPageCall(i, text) ==
    LET l == compileLocals(text) IN
    /\ input' = text
    /\ rc' = l.rc
    /\ newInput' = l.newInput
    /\ tk' = l.tk
    /\ tokens' = l.tokens
    /\ ast' = l.ast
    /\ generatedJs' = l.generatedJs
    /\ output' = l.output
    /\ error' = l.error
    /\ pc' = "removeComments"

\* a catch of a download that marks the element and leaves the promise alone
downloadFailedUnresolved(p, i, outcome) ==
    [p EXCEPT !.elements[i].addedToPage = TRUE,
              !.elements[i].dataError = downloadErrorToString(outcome)]

\* a catch of a download that sets no data-error
downloadFailedSilent(p, i, outcome) ==
    [p EXCEPT !.elements[i].addedToPage = TRUE,
              !.elements[i].promise = "resolved",
              !.callbacks = @ + 1]

\* loadScript when the download failed: data-added-to-page, data-error,
\* resolve()
downloadFailed(p, i, outcome) ==
    [p EXCEPT !.elements[i].addedToPage = TRUE,
              !.elements[i].dataError = downloadErrorToString(outcome),
              !.elements[i].promise = "resolved",
              !.callbacks = @ + 1]

\* script.setAttribute("data-src", src) for the script that addToPage made
withDataSrc(p, i) ==
    IF p.elements[i].src = <<>> THEN p
    ELSE [p EXCEPT !.scripts[Len(p.scripts)] =
             [from |-> @.from, dataCompiler |-> @.dataCompiler,
              innerHTML |-> @.innerHTML, dataSrc |-> p.elements[i].src]]

\* setup(): one script is loaded by loadScript(scripts[0]); otherwise the
\* scripts with a src are downloaded by downloadJsx
setup ==
    /\ pc = "setup"
    /\ LET scripts == pendingScripts(page) IN
       IF Cardinality(scripts) = 1
       THEN LET i == CHOOSE k \in scripts : TRUE
                p == [promiseCreated(page, i) EXCEPT !.single = TRUE]
            IN  IF page.elements[i].src = <<>>
                THEN /\ page' = [p EXCEPT !.current = i]
                     /\ addToPageCall(i, page.elements[i].innerHTML)
                ELSE /\ page' = [p EXCEPT !.fetches[i] = FetchPending]
                     /\ pc' = "idle"
                     /\ UNCHANGED <<input, rc, newInput, tk, tokens, ast,
                                    generatedJs, output, error>>
       ELSE /\ page' = [page EXCEPT !.fetches =
                           [i \in 1..Len(page.elements) |->
                               IF i \in scripts /\ page.elements[i].src # <<>>
                               THEN FetchPending ELSE FetchNone],
                                    !.downloading = TRUE]
            /\ pc' = "idle"
            /\ UNCHANGED <<input, rc, newInput, tk, tokens, ast,
                           generatedJs, output, error>>
    /\ UNCHANGED <<call, opts>>

\* a fetch of downloadJsx settles: the result is kept for Promise.all
downloadJsxSettles ==
    /\ pc = "idle"
    /\ page.downloading
    /\ \E i \in 1..Len(page.elements), outcome \in FetchOutcomes :
          /\ page.fetches[i] = FetchPending
          /\ page' = [page EXCEPT !.fetches[i] = outcome,
                                  !.settled = Append(@, i)]
    /\ UNCHANGED <<call, pc, input, opts, rc, newInput, tk, tokens, ast,
                   generatedJs, output, error>>

\* Promise.all(promisesSrc).then: every download has settled
downloadsFinished ==
    /\ pc = "idle"
    /\ page.downloading
    /\ \A i \in 1..Len(page.elements) : page.fetches[i] # FetchPending
    /\ page' = [page EXCEPT !.downloading = FALSE, !.queue = loadOrder(page)]
    /\ pc' = "added"
    /\ UNCHANGED <<call, input, opts, rc, newInput, tk, tokens, ast,
                   generatedJs, output, error>>

\* the next loadScript call of the forEach loops: an inline script, a
\* downloaded script or a failed download
loadScriptNext ==
    /\ pc = "added"
    /\ page.queue # <<>>
    /\ LET i == Head(page.queue)
           p == [promiseCreated(page, i) EXCEPT !.queue = Tail(@)]
           outcome == page.fetches[i]
       IN  IF page.elements[i].src = <<>>
           THEN /\ page' = [p EXCEPT !.current = i]
                /\ addToPageCall(i, page.elements[i].innerHTML)
           ELSE IF outcome.kind = "text"
           THEN /\ page' = [p EXCEPT !.current = i]
                /\ addToPageCall(i, outcome.text)
           ELSE /\ page' = downloadFailed(p, i, outcome)
                /\ UNCHANGED <<pc, input, rc, newInput, tk, tokens, ast,
                               generatedJs, output, error>>
    /\ UNCHANGED <<call, opts>>

\* the fetch of loadScript settles (the page has one script, with a src):
\* addToPage with the text, or the catch
loadScriptFetchSettles ==
    /\ pc = "idle"
    /\ page.single
    /\ \E i \in 1..Len(page.elements), outcome \in FetchOutcomes :
          /\ page.fetches[i] = FetchPending
          /\ IF outcome.kind = "text"
             THEN /\ page' = [page EXCEPT !.fetches[i] = outcome,
                                          !.settled = Append(@, i),
                                          !.current = i]
                  /\ addToPageCall(i, outcome.text)
             ELSE /\ page' = downloadFailed(
                                [page EXCEPT !.fetches[i] = outcome,
                                             !.settled = Append(@, i)],
                                i, outcome)
                  /\ pc' = "added"
                  /\ UNCHANGED <<input, rc, newInput, tk, tokens, ast,
                                 generatedJs, output, error>>
    /\ UNCHANGED <<call, opts>>

\* the rest of addToPage without the data-added-to-page that loadScript sets
\* after it
addToPageEndUnmarked ==
    /\ pc \in {"done", "error"}
    /\ page.current # 0
    /\ LET i == page.current
           p == IF pc = "error" THEN compileFailed(page, i, error)
                ELSE withDataSrc(scriptAdded(page, i, output), i)
       IN  page' = [p EXCEPT !.elements[i].promise = "resolved",
                             !.elements[i].addedToPage = FALSE,
                             !.current = 0]
    /\ pc' = "added"
    /\ UNCHANGED <<call, input, opts, rc, newInput, tk, tokens, ast,
                   generatedJs, output, error>>

\* the rest of addToPage after compile returned or threw, with resolve as the
\* callback, and data-added-to-page
addToPageEnd ==
    /\ pc \in {"done", "error"}
    /\ page.current # 0
    /\ LET i == page.current
           p == IF pc = "error" THEN compileFailed(page, i, error)
                ELSE withDataSrc(scriptAdded(page, i, output), i)
       IN  page' = [p EXCEPT !.elements[i].promise = "resolved",
                             !.current = 0]
    /\ pc' = "added"
    /\ UNCHANGED <<call, input, opts, rc, newInput, tk, tokens, ast,
                   generatedJs, output, error>>

\* a page before DOMContentLoaded.  settled is not part of the document: it
\* records the order in which the fetches settled.
\* the locals of a second call of setup: its downloads, the order of its
\* loadScript calls, and the calls still to make
NoSecondCall(n) ==
    [called |-> FALSE, fetches |-> [i \in 1..n |-> FetchNone],
     downloading |-> FALSE, single |-> FALSE, order |-> <<>>, queue |-> <<>>]

NewPage(elements) ==
    [elements |-> elements, scripts |-> <<>>, callbacks |-> 0,
     fetches |-> [i \in 1..Len(elements) |-> FetchNone], settled |-> <<>>,
     downloading |-> FALSE, single |-> FALSE, queue |-> <<>>, current |-> 0,
     again |-> NoSecondCall(Len(elements))]

\* every sequence of at most n members of S
RECURSIVE SeqsUpTo(_, _)
SeqsUpTo(S, n) ==
    IF n = 0 THEN {<<>>}
    ELSE LET prev == SeqsUpTo(S, n - 1)
         IN  prev \cup {Append(q, x) : q \in prev, x \in S}

InitSetupOf(n) ==
    /\ call = "compile"
    /\ pc = "setup"
    /\ input = <<>>
    /\ opts = DefaultOpts
    /\ rc = rcIdle
    /\ newInput = <<>>
    /\ tk = tkInit
    /\ tokens = <<>>
    /\ ast = <<>>
    /\ generatedJs = <<>>
    /\ output = <<>>
    /\ error = ""
    /\ page \in {NewPage(elements) : elements \in SeqsUpTo(PageElements, n)}

InitSetup == InitSetupOf(MaxPageScripts)

NextSetup ==
    \/ Next
    \/ setup
    \/ downloadJsxSettles
    \/ downloadsFinished
    \/ loadScriptNext
    \/ loadScriptFetchSettles
    \/ addToPageEnd

SpecSetup == InitSetup /\ [][NextSetup]_vars

MaxPendingScripts == 2

InitSetupFair == InitSetupOf(MaxPendingScripts)

\* every fetch eventually settles, and the code that can run does run
SpecSetupFair ==
    /\ InitSetupFair
    /\ [][NextSetup]_vars
    /\ WF_vars(downloadJsxSettles \/ loadScriptFetchSettles)
    /\ WF_vars(Next \/ setup \/ downloadsFinished \/ loadScriptNext
                    \/ addToPageEnd)

\* the elements that the scripts appended to the head were made for
AddedFrom == [k \in 1..Len(page.scripts) |-> page.scripts[k].from]

HasSrc(i) == page.elements[i].src # <<>>

Called == {i \in 1..Len(page.elements) : page.elements[i].promise # "none"}
Resolved == {i \in 1..Len(page.elements) : page.elements[i].promise = "resolved"}

\* the script of element i was added to the page or has failed
Ended(i) ==
    \/ ScriptsFrom(i) # <<>>
    \/ page.elements[i].dataError # NoAttribute

\* the promise of every element is pending or resolved; it is resolved once
\* the script was added or has failed, and pending only while its download
\* or its compile is under way
PromisesResolve ==
    /\ page.callbacks = Cardinality(Resolved)
    /\ \A i \in Called :
          /\ page.elements[i].promise \in {"pending", "resolved"}
          /\ Ended(i) => i \in Resolved
          /\ page.elements[i].addedToPage => i \in Resolved
          /\ i \notin Resolved
                => \/ page.fetches[i] = FetchPending
                   \/ page.current = i /\ pc \notin {"added", "idle", "setup"}

\* C25: the promise returned by loadScript always resolves and never
\* rejects, once the script has been added to the page or has failed: for an
\* inline script, a downloaded script, a download error, a response with a
\* non-success status and a compile error; a resolved promise stays resolved.
C25_PromiseResolves ==
    /\ []PromisesResolve
    /\ [][\A i \in Resolved : page'.elements[i].promise = "resolved"]_vars

\* three promises have resolved: for a downloaded script whose compile threw,
\* for a download that got a non-success status, and for an inline script
\* that was added to the page
C25_FailedAndAdded ==
    /\ Resolved = 1..3
    /\ page.fetches[1].kind = "text" /\ page.elements[1].compiled.error # ""
    /\ page.fetches[2].kind = "status"
    /\ ~HasSrc(3) /\ ScriptsFrom(3) # <<>>

\* C26: if every fetch eventually settles, then after setup() every
\* text/babel script that was on the page eventually has the
\* data-added-to-page attribute: hasPendingScripts() eventually returns false
\* and stays false, also when scripts fail to download or to compile.
C26_NoPendingScripts ==
    /\ <>[](~hasPendingScripts)
    /\ [][pc # "setup" /\ ~hasPendingScripts => ~hasPendingScripts']_vars

\* no script is pending on a page of two scripts of which one failed to
\* download and the other failed to compile
C26_AllAddedDespiteFailures ==
    /\ Len(page.elements) = 2
    /\ ~hasPendingScripts
    /\ page.fetches[1].kind = "rejected"
    /\ page.elements[1].dataError # NoAttribute
    /\ page.elements[2].compiled.error # ""
    /\ page.scripts = <<>>

(***************************************************************************)
(* removeComments on elements, comments and strings                        *)
(***************************************************************************)

MaxCommentPieces == 4

CommentPieces ==
    {<<"<", "a", ">">>, <<"<", "/", "a", ">">>, <<"{">>, <<"}">>,
     <<"/", "/">>, <<"/", "*">>, <<"*", "/">>, <<"\n">>, <<"x">>,
     <<"\"">>, <<"'">>, <<Backtick>>, <<"\\">>}

InitComments ==
    /\ call = "removeComments"
    /\ pc = "removeComments"
    /\ input \in Texts(CommentPieces, MaxCommentPieces)
    /\ opts = DefaultOpts
    /\ rc = rcInit(input)
    /\ newInput = <<>>
    /\ tk = tkInit
    /\ tokens = <<>>
    /\ ast = <<>>
    /\ generatedJs = <<>>
    /\ output = <<>>
    /\ error = ""
    /\ page = NoPage

SpecComments == InitComments /\ [][NextStrip]_vars

\* the loop is about to read a character
Reading == pc = "removeComments" /\ rc.current < Len(input)

InString(st) ==
    st.inStringSingleQuote \/ st.inStringDoubleQuote \/ st.inStringMultiLine

InComment(st) ==
    st.inCommentReact \/ st.inCommentSingleLine \/ st.inCommentMultiLine

\* the loop is about to read the character c outside strings and comments
ReadingCode(c) ==
    Reading /\ ~InString(rc.state) /\ ~InComment(rc.state)
            /\ At(input, rc.current) = c

\* the step wrote the character it read and changed no flag or counter
CopiedUnchanged ==
    /\ rc'.state = rc.state
    /\ rc'.current = rc.current + 1
    /\ At(rc'.newInput, rc.current) = At(input, rc.current)

\* the step blanked the two characters at the offset it read
TwoBlanked ==
    /\ rc'.current = rc.current + 2
    /\ At(rc'.newInput, rc.current) = " "
    /\ At(rc'.newInput, rc.current + 1) = " "

\* C27: no step sets inCommentSingleLine or inCommentMultiLine unless
\* elementCount = 0 or jsCount > 0, and a / read outside strings and comments
\* and followed by / or * then starts a line or block comment; when
\* elementCount > 0 and jsCount = 0 a / or * is copied with the state
\* unchanged.
C27_CommentOutsideTagAndText ==
    [][LET st == rc.state
           next == At(input, rc.current + 1)
           allowed == st.elementCount = 0 \/ st.jsCount > 0
           inElement == st.elementCount > 0 /\ st.jsCount = 0
       IN  /\ (Reading /\ ~allowed) =>
                  /\ rc'.state.inCommentSingleLine = st.inCommentSingleLine
                  /\ rc'.state.inCommentMultiLine = st.inCommentMultiLine
           /\ (ReadingCode("/") /\ next \in {"/", "*"} /\ allowed) =>
                  /\ rc'.state.inCommentSingleLine = (next = "/")
                  /\ rc'.state.inCommentMultiLine = (next = "*")
                  /\ TwoBlanked
           /\ ((ReadingCode("/") \/ ReadingCode("*")) /\ inElement) =>
                  CopiedUnchanged
      ]_vars

\* removeComments returned for `<a>//{//`: the // in the child text is
\* copied, the // in the JavaScript of the element is blanked
C27_CopiedInTextBlankedInJs ==
    /\ pc = "done"
    /\ input = <<"<", "a", ">", "/", "/", "{", "/", "/">>
    /\ newInput = <<"<", "a", ">", "/", "/", "{", " ", " ">>

\* the number of backslashes that directly precede the offset i of s
RECURSIVE BackslashesBefore(_, _)
BackslashesBefore(s, i) ==
    IF At(s, i - 1) = "\\" THEN 1 + BackslashesBefore(s, i - 1) ELSE 0

\* the character at the offset i is escaped by the rules of JavaScript
Escaped(s, i) == BackslashesBefore(s, i) % 2 = 1

StringStates(st) ==
    <<st.inStringSingleQuote, st.inStringDoubleQuote, st.inStringMultiLine>>

\* the quote character of the string state st is in
QuoteOf(st) ==
    IF st.inStringSingleQuote THEN "'"
    ELSE IF st.inStringDoubleQuote THEN "\""
    ELSE Backtick

\* C28: at most one of the three string states is set; a step made inside a
\* string sets no comment state; the quote of a string closes it when it is
\* not escaped (also after an escaped backslash, as in "a\\") and leaves it
\* open when it is escaped; every other character leaves the string open.
C28_UnescapedQuoteCloses ==
    /\ [](Cardinality({i \in 1..3 : StringStates(rc.state)[i]}) <= 1)
    /\ [][(Reading /\ InString(rc.state)) =>
             LET closes == /\ At(input, rc.current) = QuoteOf(rc.state)
                           /\ ~Escaped(input, rc.current)
             IN  /\ ~InComment(rc'.state)
                 /\ InString(rc'.state) = ~closes
                 /\ ~closes => rc'.state = rc.state
          ]_vars

\* C29: outside elements (elementCount = 0) a { directly followed by /* is
\* copied and opens no JSX comment, so only the block comment after it is
\* blanked and the } after */ is kept; inside an element (elementCount > 0)
\* the { is blanked with the /* and the comment ends with the } of */}.
C29_BracesKeptInPlainJs ==
    [][(ReadingCode("{") /\ rcPeekNext2(input, rc.current) = <<"/", "*">>) =>
          IF rc.state.elementCount > 0
          THEN /\ rc'.state.inCommentReact
               /\ rc'.current = rc.current + 3
               /\ \A i \in 0..2 : At(rc'.newInput, rc.current + i) = " "
          ELSE /\ ~rc'.state.inCommentReact
               /\ rc'.current = rc.current + 1
               /\ At(rc'.newInput, rc.current) = "{"
      ]_vars

(***************************************************************************)
(* isExpression, as removeComments applies it to each <                    *)
(***************************************************************************)

MaxExpressionPieces == 4

ExpressionPieces ==
    {<<"<">>, <<"<", "a", " ">>, <<" ">>, <<"b">>, <<"1">>, <<">">>, <<"/">>,
     <<"=">>, <<"?">>, <<")">>, <<";">>, <<"&">>, <<"|">>}

InitExpression ==
    /\ call = "removeComments"
    /\ pc = "removeComments"
    /\ input \in Texts(ExpressionPieces, MaxExpressionPieces)
    /\ opts = DefaultOpts
    /\ rc = rcInit(input)
    /\ newInput = <<>>
    /\ tk = tkInit
    /\ tokens = <<>>
    /\ ast = <<>>
    /\ generatedJs = <<>>
    /\ output = <<>>
    /\ error = ""
    /\ page = NoPage

SpecExpression == InitExpression /\ [][NextStrip]_vars

OperatorHints == {")", "&", "|", "?", ";"}

\* the offsets isExpression can read for a < at the offset current
ScannedFrom(s, current) == (current + 2)..(Len(s) - 1)

\* the offset k holds a name character that follows a space of the scan
NameAfterSpace(s, current, k) ==
    /\ TestWordSlash(At(s, k))
    /\ \E j \in (current + 2)..(k - 1) : At(s, j) = " "

\* one of ) & | ? ; stands in the scanned text before any >
HintBeforeGreater(s, current) ==
    \E q \in ScannedFrom(s, current) :
        /\ At(s, q) \in OperatorHints
        /\ \A k \in (current + 2)..(q - 1) : At(s, k) # ">"

\* one of ) & | ? ; stands in the scanned text before any > and before any
\* name character that follows a space
HintBeforeGreaterOrName(s, current) ==
    \E q \in ScannedFrom(s, current) :
        /\ At(s, q) \in OperatorHints
        /\ \A k \in (current + 2)..(q - 1) :
              At(s, k) # ">" /\ ~NameAfterSpace(s, current, k)

\* removeComments is about to read a < that it hands to isExpression
ReadingLess ==
    ReadingCode("<") /\ TestAlphaGt(rcPeekNext(input, rc.current))

\* the step counted the < as the start of an element, which it does exactly
\* when isExpression returned false
CountedAsElement == rc'.state.elementCount = rc.state.elementCount + 1

\* C30 as stated: isExpression returns true exactly when one of ) & | ? ;
\* appears before the first > of the text scanned from two characters after
\* the <, and false when > comes first or the input ends.
C30_HintBeforeGreater ==
    [][ReadingLess =>
          (CountedAsElement <=> ~HintBeforeGreater(input, rc.current))]_vars

\* C30 as the code has it: isExpression returns true exactly when one of
\* ) & | ? ; is reached before the first > and before the first name
\* character (letter, digit, _ or /) that follows a space; otherwise false.
C30_HintBeforeGreaterOrName ==
    [][ReadingLess =>
          (CountedAsElement <=> ~HintBeforeGreaterOrName(input, rc.current))]_vars

\* removeComments counted the < of `<a b?>` as an element although a ?
\* stands before the >
C30_AttributeEndsScan ==
    /\ input = <<"<", "a", " ", "b", "?", ">">>
    /\ rc.current = 1
    /\ rc.state.elementCount = 1

(***************************************************************************)
(* compile on an attribute value `{...}` that holds elements               *)
(***************************************************************************)

MaxValuePieces == 3

ValuePieces ==
    {<<"x">>, <<" ">>, <<"{">>, <<"}">>, <<"<", "b", "/", ">">>,
     <<"<", "b", ">">>, <<"<", "/", "b", ">">>, <<"<", "/", "a", ">">>}

\* what follows the attribute value: the end of the tag, with or without a
\* further attribute, and the rest of the element
ValueTails ==
    {<<"/", ">">>, <<" ", "/", ">">>, <<">", "<", "/", "a", ">">>,
     <<" ", "c", "=", "\"", "d", "\"", "/", ">">>}

InitValues ==
    /\ call = "compile"
    /\ pc = "removeComments"
    /\ \E v \in Texts(ValuePieces, MaxValuePieces), t \in ValueTails :
          input = <<"<", "a", " ", "b", "=", "{">> \o v \o <<"}">> \o t
    /\ opts = DefaultOpts
    /\ rc = rcInit(input)
    /\ newInput = <<>>
    /\ tk = tkInit
    /\ tokens = <<>>
    /\ ast = <<>>
    /\ generatedJs = <<>>
    /\ output = <<>>
    /\ error = ""
    /\ page = NoPage

SpecValues == InitValues /\ [][Next]_vars

\* the state records of the tokenizeElement calls that are running
RunningStates == {tk.stack[i].state : i \in 1..Len(tk.stack)}

\* C31: in every tokenizeElement call elementStack is the length of
\* elementState and is never negative, and currentElementState is the top
\* record of elementState when elementStack > 0 and null when it is 0.
C31_ElementStateIsStack ==
    \A st \in RunningStates :
        /\ st.elementStack >= 0
        /\ st.elementStack = Len(st.elementState)
        /\ st.currentElementState =
              IF st.elementStack = 0 THEN CesNull
              ELSE CesObject(st.elementStack - 1)

(***************************************************************************)
(* compile on an element with one child expression                         *)
(***************************************************************************)

MaxExprPieces == 3

ExprPieces == {<<"x">>, <<" ">>, <<"{">>, <<"}">>, <<"a", ":", " ", "1">>}

ChildOpens ==
    {<<"<", "a", ">", "{">>,
     <<"<", "a", " ", "b", "=", "\"", "c", "\"", ">", "{">>}
ChildClose == <<"}", "<", "/", "a", ">">>

InitChild ==
    /\ call = "compile"
    /\ pc = "removeComments"
    /\ \E open \in ChildOpens, e \in Texts(ExprPieces, MaxExprPieces) :
          input = open \o e \o ChildClose
    /\ opts = DefaultOpts
    /\ rc = rcInit(input)
    /\ newInput = <<>>
    /\ tk = tkInit
    /\ tokens = <<>>
    /\ ast = <<>>
    /\ generatedJs = <<>>
    /\ output = <<>>
    /\ error = ""
    /\ page = NoPage

SpecChild == InitChild /\ [][Next]_vars

\* the text between the braces of the child expression of the input
ChildExpressionText ==
    LET open == CHOOSE i \in 1..Len(input) :
                    input[i] = "{" /\ \A j \in 1..(i - 1) : input[j] # "{"
    IN  SubSeq(input, open + 1, Len(input) - Len(ChildClose))

\* the number of braces of s that are open after its first i characters, or
\* -1 when a } came without a { before it
RECURSIVE BraceDepth(_, _)
BraceDepth(s, i) ==
    IF i = 0 THEN 0
    ELSE LET before == BraceDepth(s, i - 1)
         IN  IF before < 0 THEN -1
             ELSE IF s[i] = "{" THEN before + 1
             ELSE IF s[i] = "}" THEN before - 1
             ELSE before

\* the braces of s pair up, so that `{` s `}` is one expression in braces
BracesBalanced(s) == BraceDepth(s, Len(s)) = 0

\* C32: for the child expression {E} of an element, E without elements and
\* not blank, the parser stores one e_child_js child whose value is E
\* trimmed, also when E begins with { and ends with }.
C32_ChildValueIsExpression ==
    LET e == ChildExpressionText IN
    (Parsed /\ BracesBalanced(e) /\ Trim(e) # <<>>) =>
        /\ Len(ast.body) = 1
        /\ Len(ast.body[1].children) = 1
        /\ ast.body[1].children[1].type = "e_child_js"
        /\ ast.body[1].children[1].value = ValueString(Trim(e))

(***************************************************************************)
(* compile on an element with several children                             *)
(***************************************************************************)

MaxChildPieces == 3

ChildrenPieces ==
    {<<"{", "x", "}">>, <<"{", "f", "(", "x", ")", "}">>,
     <<"{", "c", " ", "&", "&", "}">>, <<"{", "c", " ", "?", "}">>,
     <<"<", "b", " ", "/", ">">>, <<"t">>}

InitChildren ==
    /\ call = "compile"
    /\ pc = "removeComments"
    /\ \E c \in Texts(ChildrenPieces, MaxChildPieces) :
          input = <<"<", "a", ">">> \o c \o <<"<", "/", "a", ">">>
    /\ opts = DefaultOpts
    /\ rc = rcInit(input)
    /\ newInput = <<>>
    /\ tk = tkInit
    /\ tokens = <<>>
    /\ ast = <<>>
    /\ generatedJs = <<>>
    /\ output = <<>>
    /\ error = ""
    /\ page = NoPage

SpecChildren == InitChildren /\ [][Next]_vars

\* the endings of a JS child that take the next element without a comma
JoinEndings ==
    {<<"&", "&">>, <<"?">>, <<"(">>, <<":">>,
     <<" ", "r", "e", "t", "u", "r", "n">>}

\* the call written for the child element <b />, without white space
ChildCallB ==
    WithoutWhitespace(ReactCreateElement) \o <<"(", "\"", "b", "\"", ",", "n", "u", "l", "l", ")">>

\* C33: in the children of the compiled element, up to white space, an
\* element that directly follows a JS child is appended to it without a comma
\* exactly when the trimmed JS child ends with &&, ?, (, : or ` return`, and
\* otherwise a JS child and an element next to each other are separated by a
\* comma.
C33_CommaBetweenChildren ==
    (call = "compile" /\ pc = "done" /\ Len(ast.body) = 1) =>
        LET ch == ast.body[1].children
            out == WithoutWhitespace(output)
            js(i) == ch[i].value.v
            joined(i) == \E e \in JoinEndings : EndsWith(Trim(js(i)), e)
            comma(i) == IF joined(i) THEN <<>> ELSE <<",">>
        IN  \A i \in 1..(Len(ch) - 1) :
              /\ (ch[i].type = "e_child_js" /\ ch[i + 1].type = "e_start") =>
                    Contains(out, WithoutWhitespace(js(i)) \o comma(i)
                                      \o ChildCallB)
              /\ (ch[i].type = "e_start" /\ ch[i + 1].type = "e_child_js") =>
                    Contains(out, ChildCallB \o <<",">>
                                      \o WithoutWhitespace(js(i + 1)))

\* the download of element i was started and has settled
Settled(i) == page.fetches[i].kind \in {"text", "status", "rejected"}

\* the download of element i failed: it was rejected, or the response had a
\* status outside 200-299 that is not 304
DownloadFailed(i) == page.fetches[i].kind \in {"status", "rejected"}

\* element i is being compiled, was compiled, or has a script on the page
CompiledOrAdded(i) ==
    \/ page.current = i
    \/ page.elements[i].compiled # [output |-> <<>>, error |-> ""]
    \/ ScriptsFrom(i) # <<>>

SetupFinished ==
    /\ pc = "added"
    /\ page.queue = <<>>
    /\ page.current = 0
    /\ ~page.downloading
    /\ \A i \in 1..Len(page.elements) : page.fetches[i] # FetchPending

\* C35: a script whose download failed is never compiled and never added to
\* the page as a script; once loadScript has handled it, its element has
\* data-error and data-added-to-page; and when setup has run to its end,
\* every other script has been compiled and has data-added-to-page.
C35_FailedDownloadSkipped ==
    \A i \in 1..Len(page.elements) :
        /\ DownloadFailed(i) =>
              /\ ~CompiledOrAdded(i)
              /\ i \in Resolved =>
                    /\ page.elements[i].dataError =
                          downloadErrorToString(page.fetches[i])
                    /\ page.elements[i].addedToPage
        /\ (SetupFinished /\ ~DownloadFailed(i)) =>
              /\ page.elements[i].addedToPage
              /\ Ended(i)

\* setup ran to its end on three scripts: the first download failed, the
\* second script was downloaded and the third is inline, and both were added
C35_OthersAddedAfterFailure ==
    /\ SetupFinished
    /\ Len(page.elements) = 3
    /\ page.fetches[1].kind = "status"
    /\ page.fetches[2].kind = "text"
    /\ ~HasSrc(3)
    /\ page.elements[1].dataError # NoAttribute
    /\ AddedFrom = <<2, 3>>

(***************************************************************************)
(* setup called a second time while the downloads of the first call are    *)
(* pending                                                                 *)
(***************************************************************************)

\* no callback is running and no loadScript call of a forEach loop is left
Quiet ==
    /\ pc \in {"idle", "added"}
    /\ page.current = 0
    /\ page.queue = <<>>
    /\ page.again.queue = <<>>

\* setup() called again, by hand or by DOMContentLoaded, after the first call
\* returned and before its downloads settled
setupAgain ==
    /\ pc = "idle"
    /\ ~page.again.called
    /\ LET scripts == pendingScripts(page)
           called == [page EXCEPT !.again.called = TRUE]
       IN
       IF Cardinality(scripts) = 1
       THEN LET i == CHOOSE k \in scripts : TRUE
                p == promiseCreated(called, i)
            IN  IF page.elements[i].src = <<>>
                THEN /\ page' = [p EXCEPT !.current = i]
                     /\ addToPageCall(i, page.elements[i].innerHTML)
                ELSE /\ page' = [p EXCEPT !.again.fetches[i] = FetchPending,
                                          !.again.single = TRUE]
                     /\ UNCHANGED <<pc, input, rc, newInput, tk, tokens, ast,
                                    generatedJs, output, error>>
       ELSE /\ page' = [called EXCEPT
                           !.again.fetches =
                               [i \in 1..Len(page.elements) |->
                                   IF i \in scripts /\ page.elements[i].src # <<>>
                                   THEN FetchPending ELSE FetchNone],
                           !.again.downloading = TRUE,
                           !.again.order =
                               SelectSeq(loadOrder(page),
                                         LAMBDA i : i \in scripts)]
            /\ UNCHANGED <<pc, input, rc, newInput, tk, tokens, ast,
                           generatedJs, output, error>>
    /\ UNCHANGED <<call, opts>>

\* a fetch of the second call's downloadJsx settles
downloadJsxAgainSettles ==
    /\ Quiet
    /\ page.again.downloading
    /\ \E i \in 1..Len(page.elements), outcome \in FetchOutcomes :
          /\ page.again.fetches[i] = FetchPending
          /\ page' = [page EXCEPT !.again.fetches[i] = outcome]
    /\ UNCHANGED <<call, pc, input, opts, rc, newInput, tk, tokens, ast,
                   generatedJs, output, error>>

\* Promise.all(promisesSrc).then of the second call
downloadsAgainFinished ==
    /\ Quiet
    /\ page.again.downloading
    /\ \A i \in 1..Len(page.elements) : page.again.fetches[i] # FetchPending
    /\ page' = [page EXCEPT !.again.downloading = FALSE,
                            !.again.queue = page.again.order]
    /\ pc' = "added"
    /\ UNCHANGED <<call, input, opts, rc, newInput, tk, tokens, ast,
                   generatedJs, output, error>>

\* the next loadScript call of the second call's forEach loops
loadScriptAgainNext ==
    /\ pc = "added"
    /\ page.current = 0
    /\ page.queue = <<>>
    /\ page.again.queue # <<>>
    /\ LET i == Head(page.again.queue)
           p == [promiseCreated(page, i) EXCEPT !.again.queue = Tail(@)]
           outcome == page.again.fetches[i]
       IN  IF page.elements[i].src = <<>>
           THEN /\ page' = [p EXCEPT !.current = i]
                /\ addToPageCall(i, page.elements[i].innerHTML)
           ELSE IF outcome.kind = "text"
           THEN /\ page' = [p EXCEPT !.current = i]
                /\ addToPageCall(i, outcome.text)
           ELSE /\ page' = downloadFailed(p, i, outcome)
                /\ UNCHANGED <<pc, input, rc, newInput, tk, tokens, ast,
                               generatedJs, output, error>>
    /\ UNCHANGED <<call, opts>>

\* the fetch of the loadScript that the second call made for a single script
loadScriptAgainFetchSettles ==
    /\ Quiet
    /\ page.again.single
    /\ \E i \in 1..Len(page.elements), outcome \in FetchOutcomes :
          /\ page.again.fetches[i] = FetchPending
          /\ IF outcome.kind = "text"
             THEN /\ page' = [page EXCEPT !.again.fetches[i] = outcome,
                                          !.current = i]
                  /\ addToPageCall(i, outcome.text)
             ELSE /\ page' = downloadFailed(
                                [page EXCEPT !.again.fetches[i] = outcome],
                                i, outcome)
                  /\ pc' = "added"
                  /\ UNCHANGED <<input, rc, newInput, tk, tokens, ast,
                                 generatedJs, output, error>>
    /\ UNCHANGED <<call, opts>>

\* the callbacks of one call have returned while a download of the first
\* call is pending: the page waits for it
callbackReturns ==
    /\ pc = "added"
    /\ Quiet
    /\ \E i \in 1..Len(page.elements) : page.fetches[i] = FetchPending
    /\ pc' = "idle"
    /\ UNCHANGED <<page, call, input, opts, rc, newInput, tk, tokens, ast,
                   generatedJs, output, error>>

InitSetupTwice == InitSetupOf(MaxPendingScripts)

NextSetupTwice ==
    \/ NextSetup
    \/ setupAgain
    \/ downloadJsxAgainSettles
    \/ downloadsAgainFinished
    \/ loadScriptAgainNext
    \/ loadScriptAgainFetchSettles
    \/ callbackReturns

SpecSetupTwice == InitSetupTwice /\ [][NextSetupTwice]_vars

\* C36: no text/babel script has more than one compiled script on the page,
\* also when setup was called a second time while downloads of the first
\* call were pending.
C36_AddedAtMostOnce ==
    \A i \in 1..Len(page.elements) : Len(ScriptsFrom(i)) <= 1

\* C37: while removeComments reads its input, neither elementCount nor
\* jsCount is negative.
C37_CountsNeverNegative ==
    pc = "removeComments" =>
        /\ rc.state.elementCount >= 0
        /\ rc.state.jsCount >= 0

\* C38: the tokenizer never fails by reading a field of a currentElementState
\* that is null or undefined.
C38_NoNullDereference == error # "TypeError"

Tokenized == call = "compile" /\ pc \in {"parser", "codeGenerator", "done"}

\* C39: in the tokens of an attribute value `{...}` that holds an element,
\* every e_child_js_start has an e_child_js_end after it, and the parser's
\* walk over the value never meets a token type it does not expect.
C39_JsStartHasJsEnd ==
    /\ error # "Found unexpected token type in JS child prop"
    /\ Tokenized =>
          \A i \in 1..Len(tokens) :
              tokens[i].type = "e_child_js_start" =>
                  \E j \in (i + 1)..Len(tokens) :
                      tokens[j].type = "e_child_js_end"

(***************************************************************************)
(* closing tags and the elements they close                                *)
(***************************************************************************)

CountOf(type, i, j) ==
    Cardinality({k \in (i + 1)..(j - 1) : tokens[k].type = type})

\* the e_start tokens that the e_end token j can close: the nearest one
\* with as many e_start as e_end tokens in between
Opening(j) ==
    LET open == {i \in 1..(j - 1) :
                    /\ tokens[i].type = "e_start"
                    /\ CountOf("e_start", i, j) = CountOf("e_end", i, j)}
    IN  {i \in open : \A k \in open : k <= i}

\* C40: in a text the parser accepted, every closing tag names the element
\* it closes; only a self-closing `/>` carries no name.
C40_ClosingTagNamesElement ==
    Parsed =>
        \A j \in 1..Len(tokens) :
            (tokens[j].type = "e_end" /\ tokens[j].value # <<"/", ">">>) =>
                \A i \in Opening(j) :
                    TagName(tokens[j].value) = TagName(tokens[i].value)

====
